---------------------------- MODULE Spec2Model ----------------------------
(***************************************************************************)
(* A model of the data-access layer of the tweet store                     *)
(* (src/lib/DataAccess): the tables of models.py as a relational store,    *)
(* the statements of DAL.py as operators on it, and the operations of      *)
(* BLL.py as step actions of concurrent callers, one session per step      *)
(* group as the code opens them.                                           *)
(*                                                                         *)
(* Text is a sequence of one-character strings.  An optional value         *)
(* (Python None) is the empty set and a present value v is {v}.            *)
(* The store is MySQL/InnoDB (DAL.py imports sqlalchemy.dialects.mysql):   *)
(* a transaction's writes become visible at commit, a unique index         *)
(* rejects a second row with the same key, and INSERT .. ON DUPLICATE KEY  *)
(* UPDATE updates the row that holds the conflicting key.                  *)
(***************************************************************************)
EXTENDS Integers, Sequences, FiniteSets, TLC

\* ------------------------------------------------------------------ bounds
\* Number of top-level BLL calls in one behaviour.
MaxCalls == 2
\* Number of statements in one behaviour of the statement-level specification.
MaxStatements == 3
\* Timestamps are 1..MaxTime; 0 is the column default (datetime.min).
MaxTime == 2

\* ------------------------------------------------------- program constants
\* BLL.py:742  len(content) > 280
ContentMaxLen == 280
\* BLL.py:753  len(language) > 5
LanguageMaxLen == 5
\* models.py:56  hashtag = Column(String(100), unique=True)
HashtagMaxLen == 100
\* models.py:65  title = Column(String(100), unique=True)
TitleMaxLen == 100

\* -------------------------------------------------------------------- text
Rep(ch, n) == [i \in 1..n |-> ch]

\* Python s[:n]
Take(s, n) == IF Len(s) > n THEN SubSeq(s, 1, n) ELSE s

\* The characters the regular expression's \w matches, among those used.
WordChars == {"a", "b", "x", "y", "h", "i"}
IsWord(ch) == ch \in WordChars

\* str.replace('#', ''): every '#' is removed.
StripHash(s) == SelectSeq(s, LAMBDA ch : ch # "#")

\* The last index of the longest run of word characters that starts at i
\* (\w+ is greedy).
WordEnd(s, i) ==
    CHOOSE j \in i .. Len(s) :
        /\ \A k \in i .. j : IsWord(s[k])
        /\ j = Len(s) \/ ~ IsWord(s[j + 1])

\* re.findall('#(\w+)', s): the matches are leftmost and do not overlap.  A
\* '#' is no word character, so no match covers the '#' of another one and
\* every '#' followed by a word character starts a match.
FindAll(s) ==
    { SubSeq(s, i + 1, WordEnd(s, i + 1)) :
        i \in {k \in 1 .. Len(s) - 1 : s[k] = "#" /\ IsWord(s[k + 1])} }

\* set(re.findall('#(\w+)', content))
ExtractHashtags(content) == FindAll(content)

TruncateContentOneLate(content) == Take(content, ContentMaxLen + 1)
\* BLL.py:742-743
TruncateContent(content) == Take(content, ContentMaxLen)

TruncateLanguageNever(language) == language
\* BLL.py:753-754; language is optional
TruncateLanguage(language) == {Take(l, LanguageMaxLen) : l \in language}

\* BLL.py:793-794
TruncateTitle(e) == Take(e, TitleMaxLen)


\* ------------------------------------------------------------------ inputs
None == {}
Some(v) == {v}
TheOne(S) == CHOOSE x \in S : TRUE

TweetIds == {1, 2}
Times == 1 .. MaxTime

\* (twitter_user_id, username, display_name) triples a caller supplies.
Authors ==
    { [id |-> 1, username |-> "alice", display_name |-> "Alice"],
      [id |-> 2, username |-> "bob",   display_name |-> "Bob"],
      [id |-> 2, username |-> "alice", display_name |-> "Eve"] }

TxtAB   == <<"#", "a", " ", "#", "b">>
TxtA    == <<"h", "i", " ", "#", "a">>
TxtHi   == <<"h", "i">>
\* Longer than the content column: the hashtag 'abb' straddles the cut.
TxtLong == Rep("x", ContentMaxLen - 3) \o <<" ", "#", "a", "b", "b">>
\* One hashtag longer than the hashtag column.
TxtHuge == <<"#">> \o Rep("y", HashtagMaxLen + 1)

LangEn     == <<"e", "n">>
LangZhHans == <<"z", "h", "-", "H", "a", "n", "s">>

TitleA == <<"a">>
TitleB == <<"b">>

\* (content, language, created_at, sentiment_score, counters, topics) a caller
\* supplies.
Payloads ==
    { [content |-> TxtAB, language |-> Some(LangEn), created_at |-> 1,
       sentiment_score |-> None,
       like_count |-> 0, retweet_count |-> 0, reply_count |-> 0,
       topics |-> <<TitleA, TitleB>>],
      [content |-> TxtA, language |-> None, created_at |-> 2,
       sentiment_score |-> Some(50),
       like_count |-> 1, retweet_count |-> 0, reply_count |-> 0,
       topics |-> <<TitleB, TitleA>>],
      [content |-> TxtHi, language |-> Some(LangEn), created_at |-> 1,
       sentiment_score |-> Some(-100),
       like_count |-> 0, retweet_count |-> 2, reply_count |-> 0,
       topics |-> <<>>],
      [content |-> TxtLong, language |-> Some(LangZhHans), created_at |-> 2,
       sentiment_score |-> None,
       like_count |-> 0, retweet_count |-> 0, reply_count |-> 3,
       topics |-> <<>>],
      [content |-> TxtHuge, language |-> Some(LangEn), created_at |-> 1,
       sentiment_score |-> Some(0),
       like_count |-> 0, retweet_count |-> 0, reply_count |-> 0,
       topics |-> <<>>] }

\* ------------------------------------------------------------------- store
\* The committed rows of each table of models.py, and each auto-increment
\* counter.  pending[c] is the row caller c's open transaction has inserted
\* (flushed) and not yet committed.
VARIABLES twitter_user, tweet, hashtag, topic, tweet_hashtag, tweet_topic,
          autoinc, pending

\* The committed rows of the tables user and scraper_task (models.py:11-16,
\* 36-50), which no foreign key ties to the tweet tables.
VARIABLES user, scraper_task

\* The committed rows of raw_data (models.py:27-33); id stands for the 16
\* bytes of the key, created_at is left out.
VARIABLES raw_data

\* -------------------------------------------------------------- statements
IsNewerOrEqual(stored, incoming) == stored <= incoming
\* DAL.py:365  case((TwitterUser.last_updated < last_updated, ...))
IsNewer(stored, incoming) == stored < incoming

TwitterUserDAL_upsert_last_wins(rows, id, username, display_name, last_updated) ==
    [ok |-> TRUE, rowcount |-> 1,
     rows |-> {r \in rows : r.id # id} \cup
                 {[id |-> id, username |-> username, display_name |-> display_name,
                   last_updated |-> last_updated]}]

\* TwitterUserDAL.upsert: INSERT .. ON DUPLICATE KEY UPDATE on twitter_user.
\* The row in conflict is the one with the primary key, else the one with
\* the unique username.  The update is rejected (duplicate entry) when it
\* would give the row a username another row holds.  rowcount is 1 for an
\* insert, 2 for an update that changes the row, 1 for one that does not
\* (the SQLAlchemy MySQL drivers connect with CLIENT_FOUND_ROWS).
TwitterUserDAL_upsert(rows, id, username, display_name, last_updated) ==
    LET byId   == {r \in rows : r.id = id}
        byName == {r \in rows : r.username = username}
        hit    == IF byId # {} THEN byId ELSE byName
    IN  IF hit = {}
        THEN [ok |-> TRUE, rowcount |-> 1,
              rows |-> rows \cup {[id |-> id, username |-> username,
                                   display_name |-> display_name,
                                   last_updated |-> last_updated]}]
        ELSE LET old   == CHOOSE r \in hit : TRUE
                 newer == IsNewer(old.last_updated, last_updated)
                 new   == [id |-> old.id,
                           username |-> IF newer THEN username ELSE old.username,
                           display_name |-> IF newer THEN display_name
                                            ELSE old.display_name,
                           last_updated |-> IF newer THEN last_updated
                                            ELSE old.last_updated]
                 clash == \E r \in rows \ {old} : r.username = new.username
             IN  IF clash
                 THEN [ok |-> FALSE, rowcount |-> 0, rows |-> rows]
                 ELSE [ok |-> TRUE, rowcount |-> IF new = old THEN 1 ELSE 2,
                       rows |-> (rows \ {old}) \cup {new}]

TweetOnDuplicateAll(old, new) == new
\* DAL.py:490-498  on_duplicate_key_update(content, language, created_at,
\* sentiment_score, like_count, retweet_count, reply_count): not user_id.
TweetOnDuplicate(old, new) == [new EXCEPT !.user_id = old.user_id]

TweetDAL_upsert_one_row(rows, users, new) ==
    LET hit == {r \in rows : r.id = new.id}
    IN  IF hit = {}
        THEN IF \E u \in users : u.id = new.user_id
             THEN [ok |-> TRUE, rowcount |-> 1, rows |-> rows \cup {new}]
             ELSE [ok |-> FALSE, rowcount |-> 0, rows |-> rows]
        ELSE LET old == CHOOSE r \in hit : TRUE
             IN  [ok |-> TRUE, rowcount |-> 1,
                  rows |-> (rows \ {old}) \cup {TweetOnDuplicate(old, new)}]

\* TweetDAL.upsert: INSERT .. ON DUPLICATE KEY UPDATE on tweet.  users are the
\* twitter_user rows the transaction sees (the foreign key of a new row).
TweetDAL_upsert(rows, users, new) ==
    LET hit == {r \in rows : r.id = new.id}
    IN  IF hit = {}
        THEN IF \E u \in users : u.id = new.user_id
             THEN [ok |-> TRUE, rowcount |-> 1, rows |-> rows \cup {new}]
             ELSE [ok |-> FALSE, rowcount |-> 0, rows |-> rows]
        ELSE LET old == CHOOSE r \in hit : TRUE
                 upd == TweetOnDuplicate(old, new)
             IN  [ok |-> TRUE, rowcount |-> IF upd = old THEN 1 ELSE 2,
                  rows |-> (rows \ {old}) \cup {upd}]

\* The text column of a tag table's row.
TagText(tbl, r) == IF tbl = "hashtag" THEN r.hashtag ELSE r.title
TagRow(tbl, id, text) ==
    IF tbl = "hashtag" THEN [id |-> id, hashtag |-> text, use_count |-> 0]
    ELSE [id |-> id, title |-> text, use_count |-> 0]
TagMaxLen(tbl) == IF tbl = "hashtag" THEN HashtagMaxLen ELSE TitleMaxLen

FindByTextNever(rows, tbl, text) == {}
\* HashtagDAL.find_by_hashtag / TopicDAL.find_by_title: scalar_one_or_none().
FindByText(rows, tbl, text) == {r \in rows : TagText(tbl, r) = text}

DuplicateEntryNever(rows, tbl, value) == FALSE
\* models.py:56,65  unique=True: the index rejects a value a row holds.
DuplicateEntry(rows, tbl, value) == FindByText(rows, tbl, value) # {}

\* The value HashtagDAL.insert / TopicDAL.insert stores for its argument.
\* DAL.py:235  value = hashtag.replace('#', '') ; TopicDAL.insert stores title
InsertedText(tbl, text) == IF tbl = "hashtag" THEN StripHash(text) ELSE text

RECURSIVE SortAsc(_)
SortAsc(S) ==
    IF S = {} THEN <<>>
    ELSE LET m == CHOOSE x \in S : \A y \in S : x <= y
         IN  <<m>> \o SortAsc(S \ {m})

SeqRange(q) == {q[i] : i \in 1 .. Len(q)}

TweetHashtagBLL_insert_no_delete(links, tweets, tags, tweet_id, hashtag_id_list) ==
    [success |-> TRUE,
     rows |-> links \cup {[tweet_id |-> tweet_id, hashtag_id |-> h] :
                             h \in SeqRange(hashtag_id_list)}]
\* TweetHashtagBLL.insert in one transaction: delete_by_tweet_id, add_all,
\* commit.  A foreign key or primary key violation rolls the delete back.
TweetHashtagBLL_insert(links, tweets, tags, tweet_id, hashtag_id_list) ==
    LET ids  == SeqRange(hashtag_id_list)
        bad  == \/ Cardinality(ids) # Len(hashtag_id_list)
                \/ \E h \in ids : ~ \E r \in tags : r.id = h
                \/ ids # {} /\ ~ \E t \in tweets : t.id = tweet_id
        kept == {l \in links : l.tweet_id # tweet_id}
    IN  IF bad THEN [success |-> FALSE, rows |-> links]
        ELSE [success |-> TRUE,
              rows |-> kept \cup {[tweet_id |-> tweet_id, hashtag_id |-> h] : h \in ids}]

\* BLL.py:789,796,800: the caller collects the ids in a set[int]; CPython
\* iterates a set of small non-negative ints in ascending order.
IterOrder(topic_id_set) == SortAsc(topic_id_set)

TweetTopicBLL_insert_delete_committed(links, tweets, tags, tweet_id, order) ==
    LET ids  == SeqRange(order)
        bad  == \/ Cardinality(ids) # Len(order)
                \/ \E h \in ids : ~ \E r \in tags : r.id = h
                \/ ids # {} /\ ~ \E t \in tweets : t.id = tweet_id
        kept == {l \in links : l.tweet_id # tweet_id}
    IN  IF bad THEN [success |-> FALSE, rows |-> kept]
        ELSE [success |-> TRUE,
              rows |-> kept \cup {[tweet_id |-> tweet_id, topic_id |-> order[i],
                                   sort_order |-> i - 1] : i \in 1 .. Len(order)}]

\* TweetTopicBLL.insert in one transaction, given the ids in iteration order.
TweetTopicBLL_insert(links, tweets, tags, tweet_id, order) ==
    LET ids  == SeqRange(order)
        bad  == \/ Cardinality(ids) # Len(order)
                \/ \E h \in ids : ~ \E r \in tags : r.id = h
                \/ ids # {} /\ ~ \E t \in tweets : t.id = tweet_id
        kept == {l \in links : l.tweet_id # tweet_id}
    IN  IF bad THEN [success |-> FALSE, rows |-> links]
        ELSE [success |-> TRUE,
              rows |-> kept \cup {[tweet_id |-> tweet_id, topic_id |-> order[i],
                                   sort_order |-> i - 1] : i \in 1 .. Len(order)}]


\* ----------------------------------------------------------------- callers
\* pc[c] is caller c's position, loc[c] its local variables, ret[c] what its
\* last finished call returned: an int, or nothing when the call returned
\* None, a bool (kept in loc[c].success) or raised (loc[c].escaped).  open[c] counts the sessions c has created
\* and not closed, peak[c] the most it held at once during its current or
\* last call.  calls counts the top-level calls started, failures those of
\* them that were TweetBLL.upsert calls whose transaction was rolled back.
VARIABLES pc, loc, ret, open, peak, calls, failures

vars == <<twitter_user, tweet, hashtag, topic, tweet_hashtag, tweet_topic,
          autoinc, pending, user, scraper_task, raw_data,
          pc, loc, ret, open, peak, calls, failures>>

store == <<twitter_user, tweet, hashtag, topic, tweet_hashtag, tweet_topic>>

accounts == <<user, scraper_task, raw_data>>

Callers == {1, 2}

Max(a, b) == IF a >= b THEN a ELSE b

Table(tbl) == IF tbl = "hashtag" THEN hashtag ELSE topic

\* The committed rows as one value.
Snapshot ==
    [twitter_user |-> twitter_user, tweet |-> tweet, hashtag |-> hashtag,
     topic |-> topic, tweet_hashtag |-> tweet_hashtag, tweet_topic |-> tweet_topic]

NoCall ==
    [op |-> "none", tweet_id |-> 0, author |-> None, payload |-> None,
     created_at |-> 0, content |-> <<>>, language |-> None,
     affected_row_count |-> -1, raised |-> FALSE, retried |-> FALSE,
     todo |-> {}, hashtag_ids |-> <<>>, topics_left |-> <<>>, topic_ids |-> {},
     tbl |-> "none", text |-> <<>>, record_id |-> 0, back |-> "idle",
     base |-> 0, snap |-> None,
     id |-> 0, id_list |-> <<>>, success |-> FALSE, escaped |-> FALSE,
     query |-> "none", criteria |-> None, exclude_content |-> FALSE,
     filters |-> {}, result |-> {}, count |-> -1, key |-> "",
     json_array |-> <<>>]

InitStore ==
    /\ twitter_user = {} /\ tweet = {} /\ hashtag = {} /\ topic = {}
    /\ tweet_hashtag = {} /\ tweet_topic = {}
    /\ user = {} /\ scraper_task = {} /\ raw_data = {}
    /\ autoinc = [hashtag |-> 0, topic |-> 0]
    /\ pending = [c \in Callers |-> {}]

InitCallers ==
    /\ pc = [c \in Callers |-> "idle"]
    /\ loc = [c \in Callers |-> NoCall]
    /\ ret = [c \in Callers |-> None]
    /\ open = [c \in Callers |-> 0]
    /\ peak = [c \in Callers |-> 0]
    /\ calls = 0
    /\ failures = 0

Init == InitStore /\ InitCallers

\* ---------------------------------------- HashtagBLL/TopicBLL.insert_if_not_exists
\* The call returns v to whoever made it: the caller of the BLL (back =
\* "idle"), TweetBLL.upsert's hashtag loop or its topic loop.
IneReturn(c, v) ==
    LET l == loc[c]
    IN  /\ pc' = [pc EXCEPT ![c] = l.back]
        /\ ret' = [ret EXCEPT ![c] = IF l.back = "idle" THEN Some(v) ELSE @]
        /\ loc' = [loc EXCEPT ![c] =
                      IF l.back = "up_hashtags"
                      THEN [l EXCEPT !.hashtag_ids = Append(@, v)]
                      ELSE IF l.back = "up_topics"
                      THEN [l EXCEPT !.topic_ids = @ \cup {v}]
                      ELSE [NoCall EXCEPT !.op = l.op, !.tbl = l.tbl,
                                          !.text = l.text, !.retried = l.retried]]

OnDuplicateNoRequery(found, record_id) == record_id
\* BLL.py:465-468 / 498-501: record_id = result.id of the row found again.
OnDuplicate(found, record_id) ==
    IF found # {} THEN (CHOOSE r \in found : TRUE).id ELSE record_id

\* BLL.py:449-451 / 482-484: a direct call by a caller of the BLL.
IneCall(c, tbl, text) ==
    /\ pc[c] = "idle"
    /\ calls < MaxCalls
    /\ calls' = calls + 1
    /\ pc' = [pc EXCEPT ![c] = "ine_find"]
    /\ loc' = [loc EXCEPT ![c] = [NoCall EXCEPT !.op = "ine", !.tbl = tbl,
                                               !.text = text,
                                               !.base = open[c]]]
    /\ peak' = [peak EXCEPT ![c] = 0]
    /\ UNCHANGED accounts
    /\ UNCHANGED <<store, autoinc, pending, ret, open, failures>>

\* BLL.py:450-457: create the session, find; when found close and return.
IneFind(c) ==
    /\ pc[c] = "ine_find"
    /\ LET l     == loc[c]
           found == FindByText(Table(l.tbl), l.tbl, l.text)
       IN  /\ peak' = [peak EXCEPT ![c] = Max(@, open[c] + 1 - l.base)]
           /\ IF found # {}
              THEN /\ IneReturn(c, (CHOOSE r \in found : TRUE).id)
                   /\ open' = open
              ELSE /\ pc' = [pc EXCEPT ![c] = "ine_insert"]
                   /\ loc' = [loc EXCEPT ![c].record_id = 0]
                   /\ open' = [open EXCEPT ![c] = @ + 1]
                   /\ ret' = ret
    /\ UNCHANGED accounts
    /\ UNCHANGED <<store, autoinc, pending, calls, failures>>

\* BLL.py:462: repo.insert flushes the INSERT.  It raises when the value is
\* longer than the column (strict SQL mode, the server's default) or a
\* committed row holds it; it waits while another transaction's uncommitted
\* row holds it, and that transaction's next step is its commit.
IneInsert(c) ==
    /\ pc[c] = "ine_insert"
    /\ LET l     == loc[c]
           value == InsertedText(l.tbl, l.text)
       IN  /\ \A d \in Callers \ {c} :
                 \A r \in pending[d] : ~ (loc[d].tbl = l.tbl /\ TagText(l.tbl, r) = value)
           /\ IF \/ Len(value) > TagMaxLen(l.tbl)
                 \/ DuplicateEntry(Table(l.tbl), l.tbl, value)
              THEN /\ pc' = [pc EXCEPT ![c] = "ine_except"]
                   /\ loc' = [loc EXCEPT ![c].retried = TRUE]
                   /\ UNCHANGED <<pending, autoinc>>
              ELSE /\ autoinc' = [autoinc EXCEPT ![l.tbl] = @ + 1]
                   /\ pending' = [pending EXCEPT ![c] =
                                     {TagRow(l.tbl, autoinc[l.tbl] + 1, value)}]
                   /\ loc' = [loc EXCEPT ![c].record_id = autoinc[l.tbl] + 1]
                   /\ pc' = [pc EXCEPT ![c] = "ine_commit"]
    /\ UNCHANGED accounts
    /\ UNCHANGED <<store, ret, open, peak, calls, failures>>

IneCommitOnlyNewRow(c) ==
    /\ pc[c] = "ine_commit"
    /\ LET l == loc[c]
       IN  /\ hashtag' = IF l.tbl = "hashtag" THEN pending[c] ELSE hashtag
           /\ topic' = IF l.tbl = "topic" THEN pending[c] ELSE topic
           /\ pending' = [pending EXCEPT ![c] = {}]
           /\ open' = [open EXCEPT ![c] = @ - 1]
           /\ IneReturn(c, l.record_id)
    /\ UNCHANGED accounts
    /\ UNCHANGED <<twitter_user, tweet, tweet_hashtag, tweet_topic, autoinc,
                   peak, calls, failures>>

\* BLL.py:463,469-471: commit, close the session, return record_id.
IneCommit(c) ==
    /\ pc[c] = "ine_commit"
    /\ LET l == loc[c]
       IN  /\ hashtag' = IF l.tbl = "hashtag" THEN hashtag \cup pending[c] ELSE hashtag
           /\ topic' = IF l.tbl = "topic" THEN topic \cup pending[c] ELSE topic
           /\ pending' = [pending EXCEPT ![c] = {}]
           /\ open' = [open EXCEPT ![c] = @ - 1]
           /\ IneReturn(c, l.record_id)
    /\ UNCHANGED accounts
    /\ UNCHANGED <<twitter_user, tweet, tweet_hashtag, tweet_topic, autoinc,
                   peak, calls, failures>>

\* BLL.py:464-471: a second session is created over the first, which is
\* never closed; find again; result.id raises when nothing is found and the
\* return in the finally block swallows it, so record_id stays 0.
IneExcept(c) ==
    /\ pc[c] = "ine_except"
    /\ LET l     == loc[c]
           found == FindByText(Table(l.tbl), l.tbl, l.text)
       IN  /\ peak' = [peak EXCEPT ![c] = Max(@, open[c] + 1 - l.base)]
           /\ open' = open
           /\ IneReturn(c, OnDuplicate(found, l.record_id))
    /\ UNCHANGED accounts
    /\ UNCHANGED <<store, autoinc, pending, calls, failures>>

\* BLL.py:477-480 TopicBLL.find_by_title: the session is created and the row
\* returned; nothing closes the session.
FindByTitle(c, title) ==
    /\ pc[c] = "idle"
    /\ calls < MaxCalls
    /\ calls' = calls + 1
    /\ open' = [open EXCEPT ![c] = @ + 1]
    /\ peak' = [peak EXCEPT ![c] = 1]
    /\ ret' = [ret EXCEPT ![c] = FindByText(topic, "topic", title)]
    /\ loc' = [loc EXCEPT ![c] = [NoCall EXCEPT !.op = "find_by_title",
                                               !.tbl = "topic", !.text = title,
                                               !.base = open[c]]]
    /\ UNCHANGED accounts
    /\ UNCHANGED <<store, autoinc, pending, pc, failures>>


\* ---------------------------------------------------------- TweetBLL.upsert
\* BLL.py:730: the call creates its session.
UpsertCall(c, tweet_id, author, payload) ==
    /\ pc[c] = "idle"
    /\ calls < MaxCalls
    /\ calls' = calls + 1
    /\ pc' = [pc EXCEPT ![c] = "up_txn"]
    /\ loc' = [loc EXCEPT ![c] =
                  [NoCall EXCEPT !.op = "upsert", !.tweet_id = tweet_id,
                                 !.author = Some(author), !.payload = Some(payload),
                                 !.created_at = payload.created_at,
                                 !.content = payload.content,
                                 !.language = payload.language,
                                 !.base = open[c], !.snap = Some(Snapshot)]]
    /\ open' = [open EXCEPT ![c] = @ + 1]
    /\ peak' = [peak EXCEPT ![c] = 1]
    /\ UNCHANGED accounts
    /\ UNCHANGED <<store, autoinc, pending, ret, failures>>

\* BLL.py:731-771: truncate, upsert the author, upsert the tweet, commit; on
\* an exception roll back and set affected_row_count = 0; close the session.
\* BLL.py:774: hashtags = set(re.findall('#(\w+)', content)).
UpsertTxn(c) ==
    /\ pc[c] = "up_txn"
    /\ LET l        == loc[c]
           a        == CHOOSE x \in l.author : TRUE
           p        == CHOOSE x \in l.payload : TRUE
           content  == TruncateContent(l.content)
           language == TruncateLanguage(l.language)
           r1 == TwitterUserDAL_upsert(twitter_user, a.id, a.username,
                                       a.display_name, l.created_at)
           r2 == TweetDAL_upsert(tweet, r1.rows,
                    [id |-> l.tweet_id, user_id |-> a.id, content |-> content,
                     language |-> language, created_at |-> l.created_at,
                     sentiment_score |-> p.sentiment_score,
                     like_count |-> p.like_count,
                     retweet_count |-> p.retweet_count,
                     reply_count |-> p.reply_count])
           ok == r1.ok /\ r2.ok
       IN  /\ twitter_user' = IF ok THEN r1.rows ELSE twitter_user
           /\ tweet' = IF ok THEN r2.rows ELSE tweet
           /\ failures' = IF ok THEN failures ELSE failures + 1
           /\ loc' = [loc EXCEPT ![c] =
                         [l EXCEPT !.content = content, !.language = language,
                                   !.affected_row_count = IF ok THEN r2.rowcount ELSE 0,
                                   !.raised = ~ ok,
                                   !.todo = ExtractHashtags(content),
                                   !.topics_left = p.topics]]
    /\ open' = [open EXCEPT ![c] = @ - 1]
    /\ pc' = [pc EXCEPT ![c] = "up_hashtags"]
    /\ UNCHANGED accounts
    /\ UNCHANGED <<hashtag, topic, tweet_hashtag, tweet_topic, autoinc, pending,
                   ret, peak, calls>>

\* BLL.py:778-780: for e in hashtags (a set of str, visited in any order):
\* hashtag_id = repo.insert_if_not_exists(e).
UpsertNextHashtag(c) ==
    /\ pc[c] = "up_hashtags"
    /\ \E e \in loc[c].todo :
          loc' = [loc EXCEPT ![c] = [@ EXCEPT !.todo = @ \ {e}, !.tbl = "hashtag",
                                              !.text = e, !.back = "up_hashtags"]]
    /\ pc' = [pc EXCEPT ![c] = "ine_find"]
    /\ UNCHANGED accounts
    /\ UNCHANGED <<store, autoinc, pending, ret, open, peak, calls, failures>>

\* BLL.py:783-784: TweetHashtagBLL(self._db).insert(tweet_id, hashtag_ids);
\* its result is not looked at.
UpsertLinkHashtags(c) ==
    /\ pc[c] = "up_hashtags"
    /\ loc[c].todo = {}
    /\ LET l == loc[c]
           r == TweetHashtagBLL_insert(tweet_hashtag, tweet, hashtag, l.tweet_id,
                                       l.hashtag_ids)
       IN  /\ tweet_hashtag' = r.rows
           /\ peak' = [peak EXCEPT ![c] = Max(@, open[c] + 1 - l.base)]
           /\ pc' = [pc EXCEPT ![c] = IF l.topics_left # <<>> THEN "up_topics"
                                      ELSE "up_return"]
    /\ UNCHANGED accounts
    /\ UNCHANGED <<twitter_user, tweet, hashtag, topic, tweet_topic, autoinc,
                   pending, loc, ret, open, calls, failures>>

\* BLL.py:792-796: for e in topics, in the caller's order: truncate,
\* topic_id = repo.insert_if_not_exists(e), topic_ids.add(topic_id).
UpsertNextTopic(c) ==
    /\ pc[c] = "up_topics"
    /\ loc[c].topics_left # <<>>
    /\ loc' = [loc EXCEPT ![c] = [@ EXCEPT !.topics_left = Tail(@), !.tbl = "topic",
                                           !.text = TruncateTitle(Head(loc[c].topics_left)),
                                           !.back = "up_topics"]]
    /\ pc' = [pc EXCEPT ![c] = "ine_find"]
    /\ UNCHANGED accounts
    /\ UNCHANGED <<store, autoinc, pending, ret, open, peak, calls, failures>>

\* BLL.py:799-800: TweetTopicBLL(self._db).insert(tweet_id, topic_ids).
UpsertLinkTopics(c) ==
    /\ pc[c] = "up_topics"
    /\ loc[c].topics_left = <<>>
    /\ LET l == loc[c]
           r == TweetTopicBLL_insert(tweet_topic, tweet, topic, l.tweet_id,
                                     IterOrder(l.topic_ids))
       IN  /\ tweet_topic' = r.rows
           /\ peak' = [peak EXCEPT ![c] = Max(@, open[c] + 1 - l.base)]
    /\ pc' = [pc EXCEPT ![c] = "up_return"]
    /\ UNCHANGED accounts
    /\ UNCHANGED <<twitter_user, tweet, hashtag, topic, tweet_hashtag, autoinc,
                   pending, loc, ret, open, calls, failures>>

\* BLL.py:802: return affected_row_count.
UpsertReturn(c) ==
    /\ pc[c] = "up_return"
    /\ ret' = [ret EXCEPT ![c] = Some(loc[c].affected_row_count)]
    /\ loc' = [loc EXCEPT ![c] = NoCall]
    /\ pc' = [pc EXCEPT ![c] = "idle"]
    /\ UNCHANGED accounts
    /\ UNCHANGED <<store, autoinc, pending, open, peak, calls, failures>>

\* --------------------------------------------------------- single statements
\* TwitterUserBLL.upsert (BLL.py:549-573): TwitterUserDAL.upsert in a session
\* of its own, committed, or rolled back with 0 returned.
UserUpsert(c, id, username, display_name, last_updated) ==
    /\ pc[c] = "idle"
    /\ calls < MaxStatements
    /\ calls' = calls + 1
    /\ LET r == TwitterUserDAL_upsert(twitter_user, id, username, display_name,
                                      last_updated)
       IN  /\ twitter_user' = r.rows
           /\ ret' = [ret EXCEPT ![c] = Some(r.rowcount)]
           /\ loc' = [loc EXCEPT ![c] =
                         [NoCall EXCEPT !.op = "user_upsert",
                                        !.author = Some([id |-> id, username |-> username,
                                                         display_name |-> display_name]),
                                        !.created_at = last_updated,
                                        !.raised = ~ r.ok,
                                        !.base = open[c], !.snap = Some(Snapshot)]]
    /\ peak' = [peak EXCEPT ![c] = 1]
    /\ UNCHANGED accounts
    /\ UNCHANGED <<tweet, hashtag, topic, tweet_hashtag, tweet_topic, autoinc,
                   pending, pc, open, failures>>

\* TweetDAL.upsert (DAL.py:455-500) as one committed statement.
TweetUpsert(c, tweet_id, twitter_user_id, payload, created_at) ==
    /\ pc[c] = "idle"
    /\ calls < MaxStatements
    /\ calls' = calls + 1
    /\ LET r == TweetDAL_upsert(tweet, twitter_user,
                    [id |-> tweet_id, user_id |-> twitter_user_id,
                     content |-> payload.content, language |-> payload.language,
                     created_at |-> created_at,
                     sentiment_score |-> payload.sentiment_score,
                     like_count |-> payload.like_count,
                     retweet_count |-> payload.retweet_count,
                     reply_count |-> payload.reply_count])
       IN  /\ tweet' = r.rows
           /\ ret' = [ret EXCEPT ![c] = Some(r.rowcount)]
           /\ loc' = [loc EXCEPT ![c] =
                         [NoCall EXCEPT !.op = "tweet_upsert", !.tweet_id = tweet_id,
                                        !.author = Some([id |-> twitter_user_id]),
                                        !.payload = Some(payload),
                                        !.created_at = created_at,
                                        !.raised = ~ r.ok,
                                        !.base = open[c], !.snap = Some(Snapshot)]]
    /\ peak' = [peak EXCEPT ![c] = 1]
    /\ UNCHANGED accounts
    /\ UNCHANGED <<twitter_user, hashtag, topic, tweet_hashtag, tweet_topic,
                   autoinc, pending, pc, open, failures>>

\* ---------------------------------------------------------- specifications
\* One caller runs TweetBLL.upsert calls one after the other.
Next ==
    \/ \E t \in TweetIds, a \in Authors, p \in Payloads : UpsertCall(1, t, a, p)
    \/ UpsertTxn(1)
    \/ UpsertNextHashtag(1)
    \/ UpsertLinkHashtags(1)
    \/ UpsertNextTopic(1)
    \/ UpsertLinkTopics(1)
    \/ UpsertReturn(1)
    \/ IneFind(1)
    \/ IneInsert(1)
    \/ IneCommit(1)
    \/ IneExcept(1)

Spec == Init /\ [][Next]_vars

\* Two callers run HashtagBLL/TopicBLL.insert_if_not_exists and
\* TopicBLL.find_by_title concurrently, a step at a time.
TagTables == {"hashtag", "topic"}
TagTexts == {<<"a">>, <<"#", "a">>, <<"b">>, Rep("y", HashtagMaxLen + 1)}

NextTag ==
    \/ \E c \in Callers, tbl \in TagTables, text \in TagTexts : IneCall(c, tbl, text)
    \/ \E c \in Callers : IneFind(c)
    \/ \E c \in Callers : IneInsert(c)
    \/ \E c \in Callers : IneCommit(c)
    \/ \E c \in Callers : IneExcept(c)
    \/ \E c \in Callers, title \in TagTexts : FindByTitle(c, title)

SpecTag == Init /\ [][NextTag]_vars

\* One caller runs single upsert statements, each committed.
UserIds == {1, 2}
Usernames == {"alice", "bob"}
DisplayNames == {"Alice", "Bob"}
StatementPayloads == {p \in Payloads : p.content \in {TxtAB, TxtHi}}

NextDAL ==
    \/ \E id \in UserIds, u \in Usernames, d \in DisplayNames, ts \in Times :
          UserUpsert(1, id, u, d, ts)
    \/ \E t \in TweetIds, id \in UserIds, p \in StatementPayloads, ts \in Times :
          TweetUpsert(1, t, id, p, ts)

SpecDAL == Init /\ [][NextDAL]_vars


\* ------------------------------------------------- BaseBLL.delete / delete_all
Rows(s, tbl) ==
    CASE tbl = "twitter_user" -> s.twitter_user
      [] tbl = "tweet"        -> s.tweet
      [] tbl = "hashtag"      -> s.hashtag
      [] tbl = "topic"        -> s.topic

RestrictsNothing(s, tbl, r) == FALSE
\* models.py:83,102,103,109,110: a row some other row refers to through a
\* foreign key without ON DELETE CASCADE cannot be deleted.  The foreign keys
\* to tweet.id cascade.
Restricts(s, tbl, r) ==
    CASE tbl = "twitter_user" -> \E t \in s.tweet : t.user_id = r.id
      [] tbl = "hashtag"      -> \E l \in s.tweet_hashtag : l.hashtag_id = r.id
      [] tbl = "topic"        -> \E l \in s.tweet_topic : l.topic_id = r.id
      [] tbl = "tweet"        -> FALSE

\* One DELETE statement that selects the rows gone of table tbl: it removes
\* all of them (and, for tweet, the link rows that cascade) or fails and
\* removes none.
DeleteRows(s, tbl, gone) ==
    IF \E r \in gone : Restricts(s, tbl, r)
    THEN [ok |-> FALSE, rowcount |-> 0, store |-> s]
    ELSE [ok |-> TRUE, rowcount |-> Cardinality(gone),
          store |->
            CASE tbl = "twitter_user" -> [s EXCEPT !.twitter_user = @ \ gone]
              [] tbl = "hashtag"      -> [s EXCEPT !.hashtag = @ \ gone]
              [] tbl = "topic"        -> [s EXCEPT !.topic = @ \ gone]
              [] tbl = "tweet"        ->
                    [s EXCEPT !.tweet = @ \ gone,
                              !.tweet_hashtag =
                                  {l \in @ : ~ \E t \in gone : t.id = l.tweet_id},
                              !.tweet_topic =
                                  {l \in @ : ~ \E t \in gone : t.id = l.tweet_id}]]

\* BaseDAL.delete (DAL.py:62-77): delete(Entity).where(Entity.id == id).  When
\* the statement raises, result is unbound and the return in the finally block
\* raises in its turn: ok = FALSE stands for that exception.
BaseDAL_delete(s, tbl, id) == DeleteRows(s, tbl, {r \in Rows(s, tbl) : r.id = id})

BaseDAL_delete_all_nothing(s, tbl) == [ok |-> TRUE, rowcount |-> 0, store |-> s]
\* BaseDAL.delete_all (DAL.py:79-90): session.query(Entity).delete().  When the
\* statement raises, the except branch prints and the method returns None:
\* ok = FALSE stands for that None.
BaseDAL_delete_all(s, tbl) == DeleteRows(s, tbl, Rows(s, tbl))

\* The committed rows become those of s.
SetStore(s) ==
    /\ twitter_user' = s.twitter_user /\ tweet' = s.tweet
    /\ hashtag' = s.hashtag /\ topic' = s.topic
    /\ tweet_hashtag' = s.tweet_hashtag /\ tweet_topic' = s.tweet_topic

\* BaseBLL.delete (BLL.py:57-78) of the BLL of table tbl.  On success it
\* commits and returns the row count.  When repo.delete raises, the except
\* branch rolls back and returns 0, and the finally block's "return res"
\* reads res, which was never assigned: the call raises UnboundLocalError.
Delete(c, tbl, id) ==
    /\ pc[c] = "idle"
    /\ calls < MaxCalls
    /\ calls' = calls + 1
    /\ LET r == BaseDAL_delete(Snapshot, tbl, id)
       IN  /\ SetStore(r.store)
           /\ ret' = [ret EXCEPT ![c] = IF r.ok THEN Some(r.rowcount) ELSE None]
           /\ loc' = [loc EXCEPT ![c] =
                         [NoCall EXCEPT !.op = "delete", !.tbl = tbl, !.id = id,
                                        !.raised = ~ r.ok, !.escaped = ~ r.ok,
                                        !.base = open[c], !.snap = Some(Snapshot)]]
    /\ peak' = [peak EXCEPT ![c] = 1]
    /\ UNCHANGED accounts
    /\ UNCHANGED <<autoinc, pending, pc, open, failures>>

\* BaseBLL.delete_all (BLL.py:80-97) of the BLL of table tbl.  When the
\* statement fails, repo.delete_all has returned None, the commit has nothing
\* to write, and the call returns that None.
DeleteAll(c, tbl) ==
    /\ pc[c] = "idle"
    /\ calls < MaxCalls
    /\ calls' = calls + 1
    /\ LET r == BaseDAL_delete_all(Snapshot, tbl)
       IN  /\ SetStore(r.store)
           /\ ret' = [ret EXCEPT ![c] = IF r.ok THEN Some(r.rowcount) ELSE None]
           /\ loc' = [loc EXCEPT ![c] =
                         [NoCall EXCEPT !.op = "delete_all", !.tbl = tbl,
                                        !.raised = ~ r.ok,
                                        !.base = open[c], !.snap = Some(Snapshot)]]
    /\ peak' = [peak EXCEPT ![c] = 1]
    /\ UNCHANGED accounts
    /\ UNCHANGED <<autoinc, pending, pc, open, failures>>

\* TweetBLL.delete_all (BLL.py:804-826): delete every tweet, then every
\* hashtag, commit, return the number of tweets deleted.  Each repo.delete_all
\* keeps its own failure to itself and returns None (DAL.py:89-90), so the
\* commit writes what the statements that succeeded have done.  tweet_fails
\* and hashtag_fails say that the statement raises for a reason the rows do
\* not give (a lock wait timeout), commit_fails that the commit raises (the
\* connection is lost): then the except branch rolls back and 0 is returned.
TweetDeleteAll(c, tweet_fails, hashtag_fails, commit_fails) ==
    /\ pc[c] = "idle"
    /\ calls < MaxCalls
    /\ calls' = calls + 1
    /\ LET r1 == IF tweet_fails THEN [ok |-> FALSE, rowcount |-> 0, store |-> Snapshot]
                 ELSE BaseDAL_delete_all(Snapshot, "tweet")
           r2 == IF hashtag_fails THEN [ok |-> FALSE, rowcount |-> 0, store |-> r1.store]
                 ELSE BaseDAL_delete_all(r1.store, "hashtag")
       IN  /\ SetStore(IF commit_fails THEN Snapshot ELSE r2.store)
           /\ ret' = [ret EXCEPT ![c] = IF commit_fails THEN Some(0)
                                        ELSE IF r1.ok THEN Some(r1.rowcount) ELSE None]
           /\ loc' = [loc EXCEPT ![c] =
                         [NoCall EXCEPT !.op = "tweet_delete_all", !.tbl = "tweet",
                                        !.raised = ~ (r1.ok /\ r2.ok) \/ commit_fails,
                                        !.base = open[c], !.snap = Some(Snapshot)]]
    /\ peak' = [peak EXCEPT ![c] = 1]
    /\ UNCHANGED accounts
    /\ UNCHANGED <<autoinc, pending, pc, open, failures>>

\* ------------------------------------ TweetHashtagBLL.insert / TweetTopicBLL.insert
\* A direct call of TweetHashtagBLL.insert (BLL.py:832-850); loc[c].success is
\* what it returned.
LinkHashtags(c, tweet_id, hashtag_id_list) ==
    /\ pc[c] = "idle"
    /\ calls < MaxCalls
    /\ calls' = calls + 1
    /\ LET r == TweetHashtagBLL_insert(tweet_hashtag, tweet, hashtag, tweet_id,
                                       hashtag_id_list)
       IN  /\ tweet_hashtag' = r.rows
           /\ loc' = [loc EXCEPT ![c] =
                         [NoCall EXCEPT !.op = "link_hashtags", !.tbl = "hashtag",
                                        !.tweet_id = tweet_id,
                                        !.id_list = hashtag_id_list,
                                        !.success = r.success, !.raised = ~ r.success,
                                        !.base = open[c], !.snap = Some(Snapshot)]]
    /\ ret' = [ret EXCEPT ![c] = None]
    /\ peak' = [peak EXCEPT ![c] = 1]
    /\ UNCHANGED accounts
    /\ UNCHANGED <<twitter_user, tweet, hashtag, topic, tweet_topic, autoinc,
                   pending, pc, open, failures>>

\* A direct call of TweetTopicBLL.insert (BLL.py:856-874) with a list.
LinkTopics(c, tweet_id, topic_id_list) ==
    /\ pc[c] = "idle"
    /\ calls < MaxCalls
    /\ calls' = calls + 1
    /\ LET r == TweetTopicBLL_insert(tweet_topic, tweet, topic, tweet_id,
                                     topic_id_list)
       IN  /\ tweet_topic' = r.rows
           /\ loc' = [loc EXCEPT ![c] =
                         [NoCall EXCEPT !.op = "link_topics", !.tbl = "topic",
                                        !.tweet_id = tweet_id,
                                        !.id_list = topic_id_list,
                                        !.success = r.success, !.raised = ~ r.success,
                                        !.base = open[c], !.snap = Some(Snapshot)]]
    /\ ret' = [ret EXCEPT ![c] = None]
    /\ peak' = [peak EXCEPT ![c] = 1]
    /\ UNCHANGED accounts
    /\ UNCHANGED <<twitter_user, tweet, hashtag, topic, tweet_hashtag, autoinc,
                   pending, pc, open, failures>>

\* ---------------------------------------------------------- filter composer
\* datetime.min and datetime.max, the defaults of since and until
\* (BLL.py:580); the timestamps callers store lie between them.
DatetimeMin == 0
DatetimeMax == MaxTime + 1

\* Between(low, high) (BLL.py:9-13); inclusive is never read.
Between(low, high) == [low |-> low, high |-> high]

\* The criteria of a call that passes no argument (BLL.py:623-626).
NoCriteria ==
    [user_id |-> None, username |-> None, since |-> DatetimeMin,
     until |-> DatetimeMax, hashtags |-> None, sentiment_score |-> None,
     language |-> None]

\* "if x:" for an optional int, an optional str and an optional list or text.
TruthyInt(x) == x # None /\ TheOne(x) # 0
TruthyStr(x) == x # None /\ TheOne(x) # ""
TruthySeq(x) == x # None /\ TheOne(x) # <<>>

\* A column expression: column, operator and the bound value, which is a
\* number, a string or a set of texts by the column.
Pred(col, op, num, str, texts) ==
    [col |-> col, op |-> op, num |-> num, str |-> str, texts |-> texts]

SentimentPredicatesLowOnly(sentiment_score) ==
    { Pred("sentiment_score", ">=", b.low, "", {}) : b \in sentiment_score }
\* BLL.py:600-602; a Between is a dataclass instance and always true.
SentimentPredicates(sentiment_score) ==
    UNION { { Pred("sentiment_score", ">=", b.low, "", {}),
              Pred("sentiment_score", "<=", b.high, "", {}) } : b \in sentiment_score }

\* TweetBLL.__build_filters (BLL.py:579-607).
TweetBLL_build_filters(cr) ==
    (IF TruthyInt(cr.user_id)
     THEN {Pred("user_id", "==", TheOne(cr.user_id), "", {})} ELSE {})
    \cup (IF TruthyStr(cr.username)
          THEN {Pred("username", "==", 0, TheOne(cr.username), {})} ELSE {})
    \cup (IF cr.since # DatetimeMin
          THEN {Pred("created_at", ">=", cr.since, "", {})} ELSE {})
    \cup (IF cr.until # DatetimeMin
          THEN {Pred("created_at", "<=", cr.until, "", {})} ELSE {})
    \cup (IF TruthySeq(cr.hashtags)
          THEN {Pred("hashtag", "in", 0, "", SeqRange(TheOne(cr.hashtags)))} ELSE {})
    \cup SentimentPredicates(cr.sentiment_score)
    \cup (IF TruthySeq(cr.language)
          THEN {Pred("language", "==", 0, "", cr.language)} ELSE {})

\* The value of column expression p on a row of the join: tweet t, its
\* twitter_user u and hashtag h.  A comparison with NULL is not true.
Holds(p, t, u, h) ==
    CASE p.col = "user_id"    -> t.user_id = p.num
      [] p.col = "username"   -> u.username = p.str
      [] p.col = "created_at" ->
            IF p.op = ">=" THEN t.created_at >= p.num ELSE t.created_at <= p.num
      [] p.col = "hashtag"    -> h.hashtag \in p.texts
      [] p.col = "sentiment_score" ->
            \E v \in t.sentiment_score :
                IF p.op = ">=" THEN v >= p.num ELSE v <= p.num
      [] p.col = "language"   -> t.language = p.texts

\* DAL.py:404  has_hashtag_filters
HasHashtagFilters(filters) == \E e \in filters : e.col = "hashtag"

\* The rows of the four-table join (DAL.py:408-413) that start with tweet t.
JoinRows(filters, s, t) ==
    { j \in s.twitter_user \X s.tweet_hashtag \X s.hashtag :
        /\ t.user_id = j[1].id
        /\ t.id = j[2].tweet_id
        /\ j[3].id = j[2].hashtag_id
        /\ \A p \in filters : Holds(p, t, j[1], j[3]) }

\* The rows of the two-table join (DAL.py:415-416) that start with tweet t.
PairRows(filters, s, t) ==
    { u \in s.twitter_user :
        /\ t.user_id = u.id
        /\ \A p \in filters : Holds(p, t, u, TagRow("hashtag", 0, <<>>)) }

DistinctOmitted(n) == n
\* DAL.py:409  .distinct(): the selected columns are those of the tweet and
\* of its twitter_user, so the n join rows of one tweet are one row.
Distinct(n) == IF n > 0 THEN 1 ELSE 0

TweetObjectWithContent(t, u, exclude_content, copies) ==
    [id |-> t.id, user_id |-> t.user_id,
     content |-> Some(t.content),
     language |-> t.language, created_at |-> t.created_at,
     sentiment_score |-> t.sentiment_score, like_count |-> t.like_count,
     retweet_count |-> t.retweet_count, reply_count |-> t.reply_count,
     user |-> u, copies |-> copies]

\* DAL.py:425-430: the Tweet object built from a result row (t, u), its
\* content None when exclude_content is set; copies is the number of times
\* the object is in the list returned.
TweetObject(t, u, exclude_content, copies) ==
    [id |-> t.id, user_id |-> t.user_id,
     content |-> IF exclude_content THEN None ELSE Some(t.content),
     language |-> t.language, created_at |-> t.created_at,
     sentiment_score |-> t.sentiment_score, like_count |-> t.like_count,
     retweet_count |-> t.retweet_count, reply_count |-> t.reply_count,
     user |-> u, copies |-> copies]

\* TweetDAL.filter (DAL.py:384-432): the Tweet objects returned, each with
\* the number of times it is in the list.
TweetDAL_filter(filters, s, exclude_content) ==
    LET copies(t) ==
            IF HasHashtagFilters(filters)
            THEN Distinct(Cardinality(JoinRows(filters, s, t)))
            ELSE Cardinality(PairRows(filters, s, t))
    IN  { TweetObject(t, {u \in s.twitter_user : u.id = t.user_id},
                      exclude_content, copies(t)) :
             t \in {x \in s.tweet : copies(x) > 0} }

\* TweetDAL.count_if (DAL.py:434-453): count(*) over tweet and twitter_user,
\* and over hashtag as well when a column expression names it: nothing joins
\* that table to the tweet's links.
TweetDAL_count_if(filters, s) ==
    IF HasHashtagFilters(filters)
    THEN Cardinality({ j \in s.tweet \X s.twitter_user \X s.hashtag :
                         /\ j[1].user_id = j[2].id
                         /\ \A p \in filters : Holds(p, j[1], j[2], j[3]) })
    ELSE Cardinality({ j \in s.tweet \X s.twitter_user :
                         /\ j[1].user_id = j[2].id
                         /\ \A p \in filters :
                               Holds(p, j[1], j[2], TagRow("hashtag", 0, <<>>)) })

\* TweetBLL.filter_by (BLL.py:623-674).  A query leaves what the caller knows
\* of its last write (op, snap, raised) in place.  A behaviour has one query
\* after a write: a query changes no row, so the next one would read the same
\* rows.
FilterBy(c, cr, exclude_content) ==
    /\ pc[c] = "idle"
    /\ loc[c].query = "none"
    /\ LET filters == TweetBLL_build_filters(cr)
       IN  loc' = [loc EXCEPT ![c] =
                      [@ EXCEPT !.query = "filter_by", !.criteria = Some(cr),
                                !.exclude_content = exclude_content,
                                !.filters = filters,
                                !.result = TweetDAL_filter(filters, Snapshot,
                                                           exclude_content),
                                !.count = -1]]
    /\ peak' = [peak EXCEPT ![c] = 1]
    /\ UNCHANGED accounts
    /\ UNCHANGED <<store, autoinc, pending, pc, ret, open, calls, failures>>

\* TweetBLL.count_if (BLL.py:676-702).
CountIf(c, cr) ==
    /\ pc[c] = "idle"
    /\ loc[c].query = "none"
    /\ LET filters == TweetBLL_build_filters(cr)
       IN  loc' = [loc EXCEPT ![c] =
                      [@ EXCEPT !.query = "count_if", !.criteria = Some(cr),
                                !.exclude_content = FALSE,
                                !.filters = filters,
                                !.result = {},
                                !.count = TweetDAL_count_if(filters, Snapshot)]]
    /\ peak' = [peak EXCEPT ![c] = 1]
    /\ UNCHANGED accounts
    /\ UNCHANGED <<store, autoinc, pending, pc, ret, open, calls, failures>>

\* ------------------------------------------------- specifications, continued
\* The upsert calls of the specifications below.
QueryPayloads == {p \in Payloads : p.content # TxtLong}

\* The criteria a caller of filter_by and count_if supplies.
QueryCriteria ==
    { NoCriteria,
      [NoCriteria EXCEPT !.user_id = Some(1)],
      [NoCriteria EXCEPT !.user_id = Some(0)],
      [NoCriteria EXCEPT !.username = Some("alice")],
      [NoCriteria EXCEPT !.since = 1, !.until = 1, !.language = Some(LangEn)],
      [NoCriteria EXCEPT !.since = 1, !.until = 2, !.language = Some(LangEn)],
      [NoCriteria EXCEPT !.since = 2, !.until = 2, !.language = Some(LangEn)],
      [NoCriteria EXCEPT !.since = 1, !.until = DatetimeMin,
                         !.language = Some(LangEn)],
      [NoCriteria EXCEPT !.hashtags = Some(<< <<"a">>, <<"b">> >>)],
      [NoCriteria EXCEPT !.hashtags = Some(<< <<"b">> >>)],
      [NoCriteria EXCEPT !.hashtags = Some(<<>>)],
      [NoCriteria EXCEPT !.sentiment_score = Some(Between(-100, 0))],
      [NoCriteria EXCEPT !.sentiment_score = Some(Between(0, 50))],
      [NoCriteria EXCEPT !.user_id = Some(1), !.hashtags = Some(<< <<"a">> >>),
                         !.language = Some(LangEn)] }

\* One caller runs TweetBLL.upsert and TweetBLL.delete_all calls one after the
\* other, and filter_by and count_if between them.
NextQuery ==
    \/ \E t \in TweetIds, a \in Authors, p \in QueryPayloads : UpsertCall(1, t, a, p)
    \/ UpsertTxn(1)
    \/ UpsertNextHashtag(1)
    \/ UpsertLinkHashtags(1)
    \/ UpsertNextTopic(1)
    \/ UpsertLinkTopics(1)
    \/ UpsertReturn(1)
    \/ IneFind(1)
    \/ IneInsert(1)
    \/ IneCommit(1)
    \/ IneExcept(1)
    \/ TweetDeleteAll(1, FALSE, FALSE, FALSE)
    \/ \E cr \in QueryCriteria, ex \in BOOLEAN : FilterBy(1, cr, ex)
    \/ \E cr \in QueryCriteria : CountIf(1, cr)

SpecQuery == Init /\ [][NextQuery]_vars

\* The tables whose BLL has BaseBLL's delete and delete_all, the ids and the
\* id lists a caller passes.
DeleteTables == {"twitter_user", "tweet", "hashtag", "topic"}
DeleteAllTables == {"twitter_user", "hashtag", "topic"}
RowIds == {1, 2}
LinkLists == {<<>>, <<1>>, <<1, 2>>, <<2, 1>>, <<1, 1>>, <<3>>}

\* One caller runs the write operations of the BLL one after the other.
NextWrite ==
    \/ \E t \in TweetIds, a \in Authors, p \in QueryPayloads : UpsertCall(1, t, a, p)
    \/ UpsertTxn(1)
    \/ UpsertNextHashtag(1)
    \/ UpsertLinkHashtags(1)
    \/ UpsertNextTopic(1)
    \/ UpsertLinkTopics(1)
    \/ UpsertReturn(1)
    \/ IneFind(1)
    \/ IneInsert(1)
    \/ IneCommit(1)
    \/ IneExcept(1)
    \/ \E tbl \in DeleteTables, id \in RowIds : Delete(1, tbl, id)
    \/ \E tbl \in DeleteAllTables : DeleteAll(1, tbl)
    \/ TweetDeleteAll(1, FALSE, FALSE, FALSE)
    \/ \E t \in TweetIds, l \in LinkLists : LinkHashtags(1, t, l)
    \/ \E t \in TweetIds, l \in LinkLists : LinkTopics(1, t, l)

SpecWrite == Init /\ [][NextWrite]_vars

\* Two callers run TweetBLL.upsert and HashtagBLL/TopicBLL.insert_if_not_exists
\* concurrently, a step at a time.
ConcAuthors == {a \in Authors : a.id = 1}
ConcPayloads == {p \in Payloads : p.content = TxtA}
ConcTexts == {<<"a">>, <<"#", "a">>}

NextConc ==
    \/ \E c \in Callers, t \in TweetIds, a \in ConcAuthors, p \in ConcPayloads :
          UpsertCall(c, t, a, p)
    \/ \E c \in Callers : UpsertTxn(c)
    \/ \E c \in Callers : UpsertNextHashtag(c)
    \/ \E c \in Callers : UpsertLinkHashtags(c)
    \/ \E c \in Callers : UpsertNextTopic(c)
    \/ \E c \in Callers : UpsertLinkTopics(c)
    \/ \E c \in Callers : UpsertReturn(c)
    \/ \E c \in Callers, tbl \in TagTables, text \in ConcTexts : IneCall(c, tbl, text)
    \/ \E c \in Callers : IneFind(c)
    \/ \E c \in Callers : IneInsert(c)
    \/ \E c \in Callers : IneCommit(c)
    \/ \E c \in Callers : IneExcept(c)

SpecConc == Init /\ [][NextConc]_vars

\* ------------------------------------------------------------------ claims
AllIdle == \A c \in Callers : pc[c] = "idle"

\* A text in its stored form: no '#', and no longer than the column.
Normalized(tbl, text) ==
    /\ \A i \in 1 .. Len(text) : text[i] # "#"
    /\ Len(text) <= TagMaxLen(tbl)

\* Both callers' last call was insert_if_not_exists(text) on table tbl.
BothAsked(tbl, text) ==
    /\ AllIdle
    /\ \A c \in Callers : loc[c].op = "ine" /\ loc[c].tbl = tbl /\ loc[c].text = text

\* C1: when two callers have called insert_if_not_exists with the same
\* normalized text, in any interleaving of their steps, both calls returned
\* the same id, that id is the id of the row holding the text, and exactly
\* one row holds the text.
C1_GetOrCreateSameId ==
    \A tbl \in TagTables, text \in TagTexts :
        (Normalized(tbl, text) /\ BothAsked(tbl, text)) =>
            LET rows == FindByText(Table(tbl), tbl, text)
            IN  /\ Cardinality(rows) = 1
                /\ ret[1] = ret[2]
                /\ ret[1] = {TheOne(rows).id}

\* C1 witness: both calls found the text absent, and one of them lost the
\* race for the insert and took the duplicate path.
C1_Witness ==
    \E tbl \in TagTables, text \in TagTexts :
        /\ Normalized(tbl, text) /\ BothAsked(tbl, text)
        /\ \E c \in Callers : loc[c].retried
        /\ ret[1] = ret[2]

\* The texts of the hashtag rows linked to a tweet.
LinkedHashtags(tweet_id) ==
    { r.hashtag : r \in { h \in hashtag :
                            \E l \in tweet_hashtag :
                                l.tweet_id = tweet_id /\ l.hashtag_id = h.id } }

\* C2: once every TweetBLL.upsert call so far has returned and none of them
\* failed, the hashtags linked to each tweet row are exactly the hashtags of
\* its stored content.
C2_LinksMatchStoredText ==
    (AllIdle /\ failures = 0) =>
        \A t \in tweet : LinkedHashtags(t.id) = ExtractHashtags(t.content)

\* C3: in every state an observer of the committed rows can see, each tweet
\* row's hashtag links are those of its stored content: the content and its
\* links change together.
C3_ContentAndLinksTogether ==
    \A t \in tweet : LinkedHashtags(t.id) = ExtractHashtags(t.content)

\* C4: a TweetBLL.upsert call whose author or tweet upsert failed returns 0
\* and leaves every table as it was when the call started.
C4_FailedUpsertChangesNothing ==
    \A c \in Callers :
        (pc[c] = "up_return" /\ loc[c].raised) =>
            /\ loc[c].affected_row_count = 0
            /\ Snapshot = TheOne(loc[c].snap)

\* Caller c is in a TweetBLL.upsert call whose transaction has committed.
Committed(c) ==
    /\ loc[c].op = "upsert"
    /\ pc[c] # "up_txn"
    /\ ~ loc[c].raised

\* C5: after the transaction of TweetBLL.upsert has committed, the stored
\* content is the input when that has at most 280 characters, and else its
\* first 280 characters.
C5_ContentTruncated ==
    \A c \in Callers :
        Committed(c) =>
            LET input  == TheOne(loc[c].payload).content
                stored == TheOne({t \in tweet : t.id = loc[c].tweet_id}).content
            IN  IF Len(input) > 280
                THEN /\ Len(stored) = 280
                     /\ \A i \in 1 .. 280 : stored[i] = input[i]
                ELSE stored = input

\* C5 witness: a committed upsert of a content longer than 280 characters.
C5_Witness ==
    \E c \in Callers :
        /\ Committed(c)
        /\ Len(TheOne(loc[c].payload).content) > 280

\* C6: after the transaction of TweetBLL.upsert has committed, the stored
\* language is absent when the input is, the input when that has at most 5
\* characters, and else its first 5 characters.
C6_LanguageTruncated ==
    \A c \in Callers :
        Committed(c) =>
            LET input  == TheOne(loc[c].payload).language
                stored == TheOne({t \in tweet : t.id = loc[c].tweet_id}).language
            IN  IF input = None THEN stored = None
                ELSE IF Len(TheOne(input)) > 5
                THEN /\ stored # None
                     /\ Len(TheOne(stored)) = 5
                     /\ \A i \in 1 .. 5 : TheOne(stored)[i] = TheOne(input)[i]
                ELSE stored = input

\* C6 witness: a committed upsert of a language code longer than 5 characters.
C6_Witness ==
    \E c \in Callers :
        /\ Committed(c)
        /\ TheOne(loc[c].payload).language # None
        /\ Len(TheOne(TheOne(loc[c].payload).language)) > 5

\* The last statement was TwitterUserDAL.upsert on an author id that was
\* stored before it.
UserUpsertOnExisting ==
    /\ loc[1].op = "user_upsert"
    /\ \E u \in TheOne(loc[1].snap).twitter_user : u.id = TheOne(loc[1].author).id

UserBefore ==
    TheOne({u \in TheOne(loc[1].snap).twitter_user : u.id = TheOne(loc[1].author).id})

UserAfter == {u \in twitter_user : u.id = TheOne(loc[1].author).id}

UserIncoming ==
    [id |-> TheOne(loc[1].author).id,
     username |-> TheOne(loc[1].author).username,
     display_name |-> TheOne(loc[1].author).display_name,
     last_updated |-> loc[1].created_at]

\* The incoming username is the username of another author's row.
UsernameTaken ==
    \E u \in TheOne(loc[1].snap).twitter_user :
        u.id # UserIncoming.id /\ u.username = UserIncoming.username

\* C7 as stated: after TwitterUserDAL.upsert on a stored author id, the row is
\* unchanged when the incoming timestamp is not newer than the stored
\* last_updated, and else holds the incoming username, display_name and
\* timestamp.
C7_AsStated ==
    UserUpsertOnExisting =>
        IF UserIncoming.last_updated <= UserBefore.last_updated
        THEN UserAfter = {UserBefore}
        ELSE UserAfter = {UserIncoming}

\* C7 amended: as stated, except that with a newer timestamp and a username
\* another author's row holds, the statement is rejected and the table is
\* unchanged.
C7_AuthorUpsertByTimestamp ==
    UserUpsertOnExisting =>
        IF UserIncoming.last_updated <= UserBefore.last_updated
        THEN UserAfter = {UserBefore} /\ ~ loc[1].raised
        ELSE IF UsernameTaken
        THEN /\ twitter_user = TheOne(loc[1].snap).twitter_user
             /\ loc[1].raised
             /\ ret[1] = Some(0)
        ELSE UserAfter = {UserIncoming} /\ ~ loc[1].raised

\* C7 witness: an upsert with a newer timestamp has replaced the username and
\* the display name of a stored author.
C7_Witness ==
    /\ UserUpsertOnExisting
    /\ UserIncoming.last_updated > UserBefore.last_updated
    /\ UserAfter = {UserIncoming}
    /\ UserBefore.username # UserIncoming.username
    /\ UserBefore.display_name # UserIncoming.display_name

\* The last statement was TweetDAL.upsert on a tweet id that was stored
\* before it.
TweetUpsertOnExisting ==
    /\ loc[1].op = "tweet_upsert"
    /\ \E t \in TheOne(loc[1].snap).tweet : t.id = loc[1].tweet_id

TweetBefore ==
    TheOne({t \in TheOne(loc[1].snap).tweet : t.id = loc[1].tweet_id})

TweetAfter == {t \in tweet : t.id = loc[1].tweet_id}

TweetIncoming ==
    LET p == TheOne(loc[1].payload)
    IN  [id |-> loc[1].tweet_id, user_id |-> TheOne(loc[1].author).id,
         content |-> p.content, language |-> p.language,
         created_at |-> loc[1].created_at,
         sentiment_score |-> p.sentiment_score, like_count |-> p.like_count,
         retweet_count |-> p.retweet_count, reply_count |-> p.reply_count]

\* C8 as stated: after TweetDAL.upsert on a stored tweet id, every field of the
\* row, user_id included, holds the value of this call.
C8_AsStated ==
    TweetUpsertOnExisting => TweetAfter = {TweetIncoming}

\* C8 amended: after TweetDAL.upsert on a stored tweet id, content, language,
\* created_at, sentiment_score and the three counters hold the values of this
\* call whatever the timestamps are, and user_id keeps the stored value.
C8_TweetUpsertOverwrites ==
    TweetUpsertOnExisting =>
        /\ ~ loc[1].raised
        /\ TweetAfter = {[TweetIncoming EXCEPT !.user_id = TweetBefore.user_id]}

\* C8 witness: a second upsert of a tweet id with another payload and an
\* older created_at has replaced the payload.
C8_Witness ==
    /\ TweetUpsertOnExisting
    /\ TweetIncoming.created_at < TweetBefore.created_at
    /\ TweetIncoming.content # TweetBefore.content
    /\ \E t \in TweetAfter : t.content = TweetIncoming.content

\* C9: when TweetBLL.upsert, given a topic list, is about to return after a
\* committed transaction, the topic at zero-based position i of the list is
\* linked to the tweet with sort_order i.
C9_TopicOrderPreserved ==
    \A c \in Callers :
        (pc[c] = "up_return" /\ Committed(c)) =>
            LET topics == TheOne(loc[c].payload).topics
            IN  \A i \in 1 .. Len(topics) :
                    \E l \in tweet_topic, r \in topic :
                        /\ l.tweet_id = loc[c].tweet_id
                        /\ l.topic_id = r.id
                        /\ r.title = TruncateTitle(topics[i])
                        /\ l.sort_order = i - 1

\* C10: a caller that is in no call holds no session, and no caller has held
\* more than one session at a time during a call.
C10_SessionsReleased ==
    \A c \in Callers :
        /\ pc[c] = "idle" => open[c] = 0
        /\ peak[c] <= 1

\* The write operations of the BLL that finish in one step and return an
\* affected-row count.
WriteOps == {"delete", "delete_all", "tweet_delete_all"}

\* C11: a BLL write operation that returns an affected-row count and whose
\* store operation failed has returned 0 and has not raised: BaseBLL.delete,
\* BaseBLL.delete_all and TweetBLL.delete_all once they have finished,
\* TweetBLL.upsert when it is about to return.
C11_FailedWriteReturnsZero ==
    \A c \in Callers :
        /\ (pc[c] = "idle" /\ loc[c].op \in WriteOps /\ loc[c].raised) =>
              (~ loc[c].escaped /\ ret[c] = Some(0))
        /\ (pc[c] = "up_return" /\ loc[c].raised) =>
              loc[c].affected_row_count = 0

\* Caller c has run a query since its last write.
Queried(c) == pc[c] = "idle" /\ loc[c].query # "none"

\* The column and operator of each criterion of cr that is not at its
\* default.
SuppliedPredicates(cr) ==
    (IF cr.user_id # None THEN {<<"user_id", "==">>} ELSE {})
    \cup (IF cr.username # None THEN {<<"username", "==">>} ELSE {})
    \cup (IF cr.since # DatetimeMin THEN {<<"created_at", ">=">>} ELSE {})
    \cup (IF cr.until # DatetimeMax THEN {<<"created_at", "<=">>} ELSE {})
    \cup (IF cr.hashtags # None THEN {<<"hashtag", "in">>} ELSE {})
    \cup (IF cr.sentiment_score # None
          THEN {<<"sentiment_score", ">=">>, <<"sentiment_score", "<=">>} ELSE {})
    \cup (IF cr.language # None THEN {<<"language", "==">>} ELSE {})

\* C12: the predicate set __build_filters has built for a query holds a
\* predicate only for a criterion the caller supplied, and is empty when the
\* caller supplied none.
C12_OnlySuppliedPredicates ==
    \A c \in Callers :
        Queried(c) =>
            LET cr == TheOne(loc[c].criteria)
            IN  /\ {<<p.col, p.op>> : p \in loc[c].filters} \subseteq SuppliedPredicates(cr)
                /\ cr = NoCriteria => loc[c].filters = {}

\* Caller c's last query was filter_by and returned the tweets with the ids
\* in ids, each of them once.
ReturnedOnce(c, ids) ==
    /\ {r.id : r \in loc[c].result} = ids
    /\ Cardinality(loc[c].result) = Cardinality(ids)
    /\ \A r \in loc[c].result : r.copies = 1

\* Caller c's last query was filter_by with the criteria cr.
Filtered(c, cr) ==
    Queried(c) /\ loc[c].query = "filter_by" /\ loc[c].criteria = Some(cr)

\* The criteria that give since, until and a language, and nothing else.
RangeAndLanguage ==
    {cr \in QueryCriteria :
        /\ cr.language # None
        /\ cr = [NoCriteria EXCEPT !.since = cr.since, !.until = cr.until,
                                   !.language = cr.language]}

\* C13: filter_by with since, until and language has returned, once each, the
\* tweets whose created_at is in [since, until] and whose language is the one
\* given; filter_by with no criteria has returned every tweet once.
C13_RangeAndLanguage ==
    \A c \in Callers :
        /\ \A cr \in RangeAndLanguage :
              Filtered(c, cr) =>
                  ReturnedOnce(c, {t.id : t \in {x \in tweet :
                                      /\ cr.since <= x.created_at
                                      /\ x.created_at <= cr.until
                                      /\ x.language = cr.language}})
        /\ Filtered(c, NoCriteria) => ReturnedOnce(c, {t.id : t \in tweet})

\* Tweet t has a link to a hashtag whose text is in the list.
HasListedHashtag(t, list) ==
    \E l \in tweet_hashtag, h \in hashtag :
        /\ l.tweet_id = t.id /\ l.hashtag_id = h.id
        /\ h.hashtag \in SeqRange(list)

\* Tweet t satisfies every criterion of cr that the caller supplied.
Satisfies(cr, t) ==
    /\ \A v \in cr.user_id : t.user_id = v
    /\ \A v \in cr.username :
          \E u \in twitter_user : u.id = t.user_id /\ u.username = v
    /\ cr.since <= t.created_at
    /\ t.created_at <= cr.until
    /\ \A list \in cr.hashtags : HasListedHashtag(t, list)
    /\ \A b \in cr.sentiment_score :
          \E v \in t.sentiment_score : b.low <= v /\ v <= b.high
    /\ \A v \in cr.language : t.language = Some(v)

\* C14: whatever criteria the caller supplied, and whatever their values,
\* filter_by has returned, once each, the tweets that satisfy all of them.
C14_EverySuppliedCriterionApplied ==
    \A c \in Callers, cr \in QueryCriteria :
        Filtered(c, cr) =>
            ReturnedOnce(c, {t.id : t \in {x \in tweet : Satisfies(cr, x)}})

\* The links of tweet t to hashtags whose text is in the list.
ListedLinks(t, list) ==
    {l \in tweet_hashtag :
        /\ l.tweet_id = t.id
        /\ \E h \in hashtag : h.id = l.hashtag_id /\ h.hashtag \in SeqRange(list)}

\* C15: filter_by with a hashtag list has returned every tweet that has a
\* link to a hashtag of the list (and satisfies the other criteria given),
\* and has returned no tweet more than once, however many of the listed
\* hashtags the tweet is linked to.
C15_HashtagFilterDistinct ==
    \A c \in Callers, cr \in QueryCriteria :
        (Filtered(c, cr) /\ cr.hashtags # None) =>
            /\ \A t \in tweet :
                  Satisfies(cr, t) =>
                      \E r \in loc[c].result : r.id = t.id /\ r.copies = 1
            /\ \A r \in loc[c].result : r.copies = 1
            /\ \A r1, r2 \in loc[c].result : r1.id = r2.id => r1 = r2

\* C15 witness: filter_by with a hashtag list has returned a tweet that is
\* linked to two hashtags of the list.
C15_Witness ==
    \E cr \in QueryCriteria :
        /\ Filtered(1, cr) /\ cr.hashtags # None
        /\ \E t \in tweet :
              /\ Cardinality(ListedLinks(t, TheOne(cr.hashtags))) >= 2
              /\ \E r \in loc[1].result : r.id = t.id /\ r.copies = 1

\* The criteria that give a sentiment range and nothing else.
SentimentOnly ==
    {cr \in QueryCriteria :
        /\ cr.sentiment_score # None
        /\ cr = [NoCriteria EXCEPT !.sentiment_score = cr.sentiment_score]}

CountedAfterDeleteAll(c) ==
    /\ Queried(c)
    /\ loc[c].op = "tweet_delete_all" /\ ~ loc[c].raised
    /\ loc[c].query = "count_if" /\ loc[c].criteria = Some(NoCriteria)

\* C17: count_if with no criteria, called after TweetBLL.delete_all has
\* returned successfully, has returned 0.
C17_CountZeroAfterDeleteAll ==
    \A c \in Callers : CountedAfterDeleteAll(c) => loc[c].count = 0

\* C17 witness: the delete_all found tweets, hashtags and links of both
\* kinds, reported the tweets it deleted, and the count after it is 0.
C17_Witness ==
    /\ CountedAfterDeleteAll(1)
    /\ LET before == TheOne(loc[1].snap)
       IN  /\ before.tweet # {} /\ before.hashtag # {}
           /\ before.tweet_hashtag # {} /\ before.tweet_topic # {}
           /\ ret[1] = Some(Cardinality(before.tweet))
    /\ loc[1].count = 0

\* The rows of caller c's table that hold the text c has asked for.
StoredAsAsked(c) ==
    {r \in Table(loc[c].tbl) : TagText(loc[c].tbl, r) = loc[c].text}

\* C18: when insert_if_not_exists looks its text up and a row holds it, the
\* call ends with that step: it returns the row's id and writes nothing (the
\* hashtag and topic rows, their ids and use counters, the id counters and
\* the uncommitted rows are as before).
C18_FoundMeansNoWrite ==
    [][ \A c \in Callers :
          (pc[c] = "ine_find" /\ pc'[c] # "ine_find" /\ StoredAsAsked(c) # {}) =>
              /\ pc'[c] = loc[c].back
              /\ loc[c].back = "idle" => ret'[c] = {r.id : r \in StoredAsAsked(c)}
              /\ hashtag' = hashtag /\ topic' = topic
              /\ autoinc' = autoinc /\ pending' = pending ]_vars

\* C18 witness: each caller has made one call with the same text, neither
\* took the duplicate path, and one row was created: one of the two calls
\* found the text stored and returned the id of that row.
C18_Witness ==
    /\ AllIdle /\ calls = 2
    /\ \E tbl \in TagTables, text \in TagTexts :
          /\ BothAsked(tbl, text)
          /\ \A c \in Callers : ~ loc[c].retried
          /\ autoinc[tbl] = 1
          /\ \E r \in Table(tbl) :
                TagText(tbl, r) = text /\ ret[1] = Some(r.id) /\ ret[2] = Some(r.id)

\* C19: in every state no two hashtag rows hold the same text and no two
\* topic rows hold the same title, however the steps of concurrent upsert
\* and insert_if_not_exists calls interleave.
C19_TagTextUnique ==
    /\ \A r1, r2 \in hashtag : r1.hashtag = r2.hashtag => r1 = r2
    /\ \A r1, r2 \in topic : r1.title = r2.title => r1 = r2

\* C19 witness: an upsert's insert of a tag was rejected because a call that
\* ran at the same time had committed a row with that text.
C19_Witness ==
    \E c \in Callers :
        /\ pc[c] = "ine_except" /\ loc[c].op = "upsert"
        /\ \E d \in Callers \ {c} : loc[d].op \in {"upsert", "ine"}
        /\ \E r \in Table(loc[c].tbl) :
              TagText(loc[c].tbl, r) = InsertedText(loc[c].tbl, loc[c].text)

\* Caller c's last call was a direct call of TweetHashtagBLL.insert or
\* TweetTopicBLL.insert.
Linked(c) == pc[c] = "idle" /\ loc[c].op \in {"link_hashtags", "link_topics"}

\* The ids tweet_id is linked to in the link table of the tags of table tbl.
LinksOf(tbl, tweet_id) ==
    IF tbl = "hashtag"
    THEN {l.hashtag_id : l \in {x \in tweet_hashtag : x.tweet_id = tweet_id}}
    ELSE {l.topic_id : l \in {x \in tweet_topic : x.tweet_id = tweet_id}}

\* The same call made again now would leave the link rows as they are.
SameAgain(c) ==
    IF loc[c].op = "link_hashtags"
    THEN TweetHashtagBLL_insert(tweet_hashtag, tweet, hashtag, loc[c].tweet_id,
                                loc[c].id_list).rows = tweet_hashtag
    ELSE TweetTopicBLL_insert(tweet_topic, tweet, topic, loc[c].tweet_id,
                              loc[c].id_list).rows = tweet_topic

\* C20 as stated: after a call with tweet id c and id list L the tweet's
\* links are the ids in L, and the same call again leaves the same link rows,
\* whatever the arguments and the rows before.
C20_AsStated ==
    \A c \in Callers :
        Linked(c) =>
            /\ LinksOf(loc[c].tbl, loc[c].tweet_id) = SeqRange(loc[c].id_list)
            /\ SameAgain(c)

\* The arguments of caller c's link call name rows that exist: the ids of
\* the list are different ids of rows of the tag table, and the tweet is
\* stored unless the list is empty.
LinkArgumentsExist(c) ==
    /\ Cardinality(SeqRange(loc[c].id_list)) = Len(loc[c].id_list)
    /\ \A h \in SeqRange(loc[c].id_list) : \E r \in Table(loc[c].tbl) : r.id = h
    /\ loc[c].id_list # <<>> => \E t \in tweet : t.id = loc[c].tweet_id

\* C20: a link call whose arguments name rows that exist returns True and
\* leaves the tweet linked to the ids of the list and to nothing else, a
\* topic at the position it has in the list, and the other tweets' links as
\* they were; any other link call returns False and leaves the link rows as
\* they were.  In both cases the same call again leaves the same link rows.
C20_LinkReplaceIdempotent ==
    \A c \in Callers :
        Linked(c) =>
            LET l      == loc[c]
                before == TheOne(l.snap)
            IN  /\ l.success = LinkArgumentsExist(c)
                /\ l.success =>
                      /\ LinksOf(l.tbl, l.tweet_id) = SeqRange(l.id_list)
                      /\ l.op = "link_topics" =>
                            \A i \in 1 .. Len(l.id_list) :
                                [tweet_id |-> l.tweet_id, topic_id |-> l.id_list[i],
                                 sort_order |-> i - 1] \in tweet_topic
                      /\ {x \in tweet_hashtag : x.tweet_id # l.tweet_id}
                            = {x \in before.tweet_hashtag : x.tweet_id # l.tweet_id}
                      /\ {x \in tweet_topic : x.tweet_id # l.tweet_id}
                            = {x \in before.tweet_topic : x.tweet_id # l.tweet_id}
                /\ ~ l.success =>
                      /\ tweet_hashtag = before.tweet_hashtag
                      /\ tweet_topic = before.tweet_topic
                /\ SameAgain(c)

\* C20 witness: a link call has replaced links that were not those of its
\* list by the ids of its list.
C20_Witness ==
    /\ Linked(1) /\ loc[1].success /\ loc[1].id_list # <<>>
    /\ LET before == TheOne(loc[1].snap)
       IN  \E x \in before.tweet_hashtag \cup before.tweet_topic :
              /\ x.tweet_id = loc[1].tweet_id
              /\ x \notin tweet_hashtag \cup tweet_topic
    /\ LinksOf(loc[1].tbl, loc[1].tweet_id) = SeqRange(loc[1].id_list)

\* ------------------------------------------------------------ usage counter
\* HashtagDAL.upsert (DAL.py:266-289): INSERT INTO hashtag (hashtag, use_count)
\* VALUES (hashtag, use_count_increment if it is >= 0 else 0)
\* ON DUPLICATE KEY UPDATE use_count = use_count + use_count_increment.
\* The text is stored as given (no '#' is removed here); use_count is a signed
\* BIGINT (models.py:57).  A value longer than the column raises.
HashtagDAL_upsert(rows, last_id, value, use_count_increment) ==
    LET hit == FindByText(rows, "hashtag", value)
    IN  IF Len(value) > HashtagMaxLen
        THEN [ok |-> FALSE, rowcount |-> 0, rows |-> rows]
        ELSE IF hit = {}
        THEN [ok |-> TRUE, rowcount |-> 1,
              rows |-> rows \cup
                  {[id |-> last_id + 1, hashtag |-> value,
                    use_count |-> IF use_count_increment >= 0
                                  THEN use_count_increment ELSE 0]}]
        ELSE LET old == TheOne(hit)
                 upd == [old EXCEPT !.use_count = old.use_count + use_count_increment]
             IN  [ok |-> TRUE, rowcount |-> IF upd = old THEN 1 ELSE 2,
                  rows |-> (rows \ {old}) \cup {upd}]

\* One HashtagDAL.upsert statement, executed in a session of its own.
HashtagUpsert(c, value, use_count_increment) ==
    /\ pc[c] = "idle"
    /\ calls < MaxStatements
    /\ calls' = calls + 1
    /\ LET r == HashtagDAL_upsert(hashtag, autoinc.hashtag, value, use_count_increment)
       IN  /\ hashtag' = r.rows
           /\ autoinc' = [autoinc EXCEPT !.hashtag =
                             IF r.ok /\ FindByText(hashtag, "hashtag", value) = {}
                             THEN @ + 1 ELSE @]
           /\ ret' = [ret EXCEPT ![c] = Some(r.rowcount)]
           /\ loc' = [loc EXCEPT ![c] =
                         [NoCall EXCEPT !.op = "hashtag_upsert", !.tbl = "hashtag",
                                        !.text = value,
                                        !.count = use_count_increment,
                                        !.raised = ~ r.ok,
                                        !.base = open[c], !.snap = Some(Snapshot)]]
    /\ peak' = [peak EXCEPT ![c] = 1]
    /\ UNCHANGED accounts
    /\ UNCHANGED <<twitter_user, tweet, topic, tweet_hashtag, tweet_topic,
                   pending, pc, open, failures>>

\* One caller runs HashtagDAL.upsert statements with signed increments.
CountTexts == {<<"a">>, <<"b">>, Rep("y", HashtagMaxLen + 1)}
Increments == {-2, -1, 0, 1, 2}

NextCount ==
    \E value \in CountTexts, d \in Increments : HashtagUpsert(1, value, d)

SpecCount == Init /\ [][NextCount]_vars

\* C21: the usage counter of every hashtag row is non-negative in every
\* reachable state, whatever increments HashtagDAL.upsert was called with.
C21_UseCountNonNegative ==
    \A h \in hashtag : h.use_count >= 0

\* ------------------------------------------------------- C22: return value
\* Caller 1's TweetBLL.upsert returns in this step (BLL.py:802).
UpsertReturning == pc[1] = "up_return" /\ pc'[1] = "idle"

\* The tweet row of the returning call's id before the call and now.
TweetAtCall == {t \in TheOne(loc[1].snap).tweet : t.id = loc[1].tweet_id}
TweetNow == {t \in tweet : t.id = loc[1].tweet_id}

\* C22 as stated: TweetBLL.upsert returns 1 whenever the content upsert
\* succeeds, for a new id and for an existing id, changed or not.
C22_AsStated ==
    [][(UpsertReturning /\ ~ loc[1].raised) => ret'[1] = Some(1)]_vars

\* C22: TweetBLL.upsert returns the affected-row count the store reports
\* for the content upsert: 1 when the id is new, 1 when the row exists and
\* keeps every value, 2 when the row exists and a value changes.
C22_ReturnsRowcount ==
    [][(UpsertReturning /\ ~ loc[1].raised) =>
          ret'[1] = Some(IF TweetAtCall # {} /\ TweetNow # TweetAtCall
                         THEN 2 ELSE 1)]_vars

\* A successful call on an existing id has returned 2, and the id holds a row.
C22_Witness ==
    /\ pc[1] = "idle"
    /\ loc[1].op = "none"
    /\ ret[1] = Some(2)
    /\ tweet # {}

\* ------------------------------------------------------ C23: tag rows stay
\* This step removes a row of the hashtag or of the topic table.
TagRowRemoved == ~ (hashtag \subseteq hashtag') \/ ~ (topic \subseteq topic')

\* The calls that delete rows by request: BaseBLL.delete, BaseBLL.delete_all
\* and TweetBLL.delete_all.
ExplicitDeletes == {"delete", "delete_all", "tweet_delete_all"}

BaseDAL_find_by_id_first_row(s, tbl, id) ==
    IF Rows(s, tbl) = {} THEN {} ELSE {CHOOSE r \in Rows(s, tbl) : TRUE}

\* BaseDAL.find_by_id (DAL.py:26-37): select(Entity).where(Entity.id == id),
\* fetchone(): the row, or None when no row has the id.
BaseDAL_find_by_id(s, tbl, id) == {r \in Rows(s, tbl) : r.id = id}

\* BaseBLL.find_by_id (BLL.py:37-55) of the BLL of table tbl; fails says that
\* the query raises (the server cannot be reached).  Then the except branch
\* prints and returns None, and the finally block's "return res" reads res,
\* which was never assigned: the call raises UnboundLocalError.  Otherwise
\* the call returns what the query found, in loc[c].result.
FindById(c, tbl, id, fails) ==
    /\ pc[c] = "idle"
    /\ calls < MaxCalls
    /\ calls' = calls + 1
    /\ loc' = [loc EXCEPT ![c] =
                  [NoCall EXCEPT !.op = "find_by_id", !.tbl = tbl, !.id = id,
                                 !.raised = fails, !.escaped = fails,
                                 !.result = IF fails THEN {}
                                            ELSE BaseDAL_find_by_id(Snapshot, tbl, id),
                                 !.base = open[c], !.snap = Some(Snapshot)]]
    /\ ret' = [ret EXCEPT ![c] = None]
    /\ peak' = [peak EXCEPT ![c] = 1]
    /\ UNCHANGED accounts
    /\ UNCHANGED <<store, autoinc, pending, pc, open, failures>>

\* BaseDAL.find_all (DAL.py:14-17): session.query(Entity).all(), every row
\* of the table.
BaseDAL_find_all(s, tbl) == Rows(s, tbl)

\* BaseBLL.find_all (BLL.py:23-35) of the BLL of table tbl, written like
\* find_by_id: when the query raises, the except branch prints and returns
\* None, and the finally block's "return results" reads results, which was
\* never assigned: the call raises UnboundLocalError.  Otherwise the call
\* returns the rows, in loc[c].result.
BaseBLL_find_all(c, tbl, fails) ==
    /\ pc[c] = "idle"
    /\ calls < MaxCalls
    /\ calls' = calls + 1
    /\ loc' = [loc EXCEPT ![c] =
                  [NoCall EXCEPT !.op = "find_all", !.tbl = tbl,
                                 !.raised = fails, !.escaped = fails,
                                 !.result = IF fails THEN {}
                                            ELSE BaseDAL_find_all(Snapshot, tbl),
                                 !.base = open[c], !.snap = Some(Snapshot)]]
    /\ ret' = [ret EXCEPT ![c] = None]
    /\ peak' = [peak EXCEPT ![c] = 1]
    /\ UNCHANGED accounts
    /\ UNCHANGED <<store, autoinc, pending, pc, open, failures>>

\* ------------------------------------------------- UserBLL / ScraperTaskBLL
\* UserBLL.insert (BLL.py:135-158): record_id = uuid.uuid4().hex, a key no
\* row holds; the unique index on email (models.py:15) rejects a second row
\* with the same email, and then the call returns None.  loc[c].key is the
\* key returned, "" standing for None.
UserInsert(c, record_id, email, password) ==
    /\ pc[c] = "idle"
    /\ calls < MaxCalls
    /\ calls' = calls + 1
    /\ \A r \in user : r.id # record_id
    /\ LET clash == \E r \in user : r.email = email
       IN  /\ user' = IF clash THEN user
                      ELSE user \cup {[id |-> record_id, email |-> email,
                                       password |-> password]}
           /\ loc' = [loc EXCEPT ![c] =
                         [NoCall EXCEPT !.op = "user_insert", !.tbl = "user",
                                        !.key = IF clash THEN "" ELSE record_id,
                                        !.raised = clash, !.base = open[c]]]
    /\ ret' = [ret EXCEPT ![c] = None]
    /\ peak' = [peak EXCEPT ![c] = 1]
    /\ UNCHANGED <<store, scraper_task, raw_data, autoinc, pending, pc, open, failures>>

UserDAL_update_any_row(rows, id, email, password) ==
    LET hit == IF rows = {} THEN {} ELSE {CHOOSE r \in rows : TRUE}
    IN  IF hit = {} THEN [ok |-> TRUE, rowcount |-> 0, rows |-> rows]
        ELSE [ok |-> TRUE, rowcount |-> 1,
              rows |-> (rows \ hit) \cup
                          {[id |-> TheOne(hit).id, email |-> email,
                            password |-> password]}]

\* UserDAL.update (DAL.py:138-142): UPDATE user SET email, password WHERE
\* id = id; rowcount is the number of rows the WHERE clause matched.  The
\* statement raises when another row holds the email.
UserDAL_update(rows, id, email, password) ==
    LET hit == {r \in rows : r.id = id}
    IN  IF hit = {} THEN [ok |-> TRUE, rowcount |-> 0, rows |-> rows]
        ELSE IF \E r \in rows \ hit : r.email = email
        THEN [ok |-> FALSE, rowcount |-> 0, rows |-> rows]
        ELSE [ok |-> TRUE, rowcount |-> 1,
              rows |-> (rows \ hit) \cup
                          {[id |-> id, email |-> email, password |-> password]}]

\* UserBLL.update (BLL.py:160-182): the update committed, or rolled back with
\* 0 returned.
UserUpdate(c, id, email, password) ==
    /\ pc[c] = "idle"
    /\ calls < MaxCalls
    /\ calls' = calls + 1
    /\ LET r == UserDAL_update(user, id, email, password)
       IN  /\ user' = r.rows
           /\ ret' = [ret EXCEPT ![c] = Some(IF r.ok THEN r.rowcount ELSE 0)]
           /\ loc' = [loc EXCEPT ![c] =
                         [NoCall EXCEPT !.op = "user_update", !.tbl = "user",
                                        !.key = id, !.raised = ~ r.ok,
                                        !.base = open[c]]]
    /\ peak' = [peak EXCEPT ![c] = 1]
    /\ UNCHANGED <<store, scraper_task, raw_data, autoinc, pending, pc, open, failures>>

\* The rows of data_source (models.py:18-24), a table the library never
\* writes: scraper_task.data_source_id refers to it (models.py:41).
DataSourceIds == {"tw"}

\* ScraperTaskBLL.insert (BLL.py:355-386): record_id = uuid.uuid4().bytes, a
\* key no row holds; an unknown data_source_id fails the foreign key and the
\* call returns None.
ScraperTaskInsert(c, record_id, data_source_id, description, query, repeat_interval, enabled, created_by) ==
    /\ pc[c] = "idle"
    /\ calls < MaxCalls
    /\ calls' = calls + 1
    /\ \A r \in scraper_task : r.id # record_id
    /\ LET bad == data_source_id \notin DataSourceIds
       IN  /\ scraper_task' =
                 IF bad THEN scraper_task
                 ELSE scraper_task \cup
                         {[id |-> record_id, data_source_id |-> data_source_id,
                           description |-> description, query |-> query,
                           repeat_interval |-> repeat_interval,
                           enabled |-> enabled, created_by |-> created_by,
                           modified_by |-> None, modified_at |-> None]}
           /\ loc' = [loc EXCEPT ![c] =
                         [NoCall EXCEPT !.op = "task_insert", !.tbl = "scraper_task",
                                        !.key = IF bad THEN "" ELSE record_id,
                                        !.raised = bad, !.base = open[c]]]
    /\ ret' = [ret EXCEPT ![c] = None]
    /\ peak' = [peak EXCEPT ![c] = 1]
    /\ UNCHANGED <<store, user, raw_data, autoinc, pending, pc, open, failures>>

\* ScraperTaskDAL.update (DAL.py:205-210): UPDATE scraper_task SET the given
\* columns and modified_at = now() WHERE id = id; rowcount is the number of
\* rows matched.  The statement raises when a matched row would refer to a
\* data source that does not exist.
ScraperTaskDAL_update(rows, id, kwvalues) ==
    LET hit == {r \in rows : r.id = id}
    IN  IF hit = {} THEN [ok |-> TRUE, rowcount |-> 0, rows |-> rows]
        ELSE IF kwvalues.data_source_id \notin DataSourceIds
        THEN [ok |-> FALSE, rowcount |-> 0, rows |-> rows]
        ELSE [ok |-> TRUE, rowcount |-> 1,
              rows |-> (rows \ hit) \cup
                 {[TheOne(hit) EXCEPT
                      !.data_source_id = kwvalues.data_source_id,
                      !.description = kwvalues.description,
                      !.query = kwvalues.query,
                      !.repeat_interval = kwvalues.repeat_interval,
                      !.enabled = kwvalues.enabled,
                      !.modified_by = Some(kwvalues.modified_by),
                      !.modified_at = Some("now")]}]

\* ScraperTaskBLL.update (BLL.py:391-420): the update committed, or rolled
\* back with 0 returned.
ScraperTaskUpdate(c, id, data_source_id, description, query, repeat_interval, enabled, modified_by) ==
    /\ pc[c] = "idle"
    /\ calls < MaxCalls
    /\ calls' = calls + 1
    /\ LET r == ScraperTaskDAL_update(scraper_task, id,
                    [data_source_id |-> data_source_id, description |-> description,
                     query |-> query, repeat_interval |-> repeat_interval,
                     enabled |-> enabled, modified_by |-> modified_by])
       IN  /\ scraper_task' = r.rows
           /\ ret' = [ret EXCEPT ![c] = Some(IF r.ok THEN r.rowcount ELSE 0)]
           /\ loc' = [loc EXCEPT ![c] =
                         [NoCall EXCEPT !.op = "task_update", !.tbl = "scraper_task",
                                        !.key = id, !.raised = ~ r.ok,
                                        !.base = open[c]]]
    /\ peak' = [peak EXCEPT ![c] = 1]
    /\ UNCHANGED <<store, user, raw_data, autoinc, pending, pc, open, failures>>

\* One caller runs the per-table operations of the BLL one after the other:
\* find_by_id and delete on the tag tables, which insert_if_not_exists
\* fills, and insert and update on user and scraper_task.
Keys == {"k1", "k2"}
UpdateKeys == Keys \cup {"k3"}
Emails == {"a@x", "b@x"}
Passwords == {"p", "q"}
SourceIds == {"tw", "zz"}
Descriptions == {"d1", "d2"}
CrudTexts == {<<"a">>, <<"b">>, Rep("y", HashtagMaxLen + 1)}

NextCrud ==
    \/ \E tbl \in TagTables, text \in CrudTexts : IneCall(1, tbl, text)
    \/ IneFind(1)
    \/ IneInsert(1)
    \/ IneCommit(1)
    \/ IneExcept(1)
    \/ \E tbl \in TagTables, id \in RowIds, fails \in BOOLEAN : FindById(1, tbl, id, fails)
    \/ \E tbl \in TagTables, fails \in BOOLEAN : BaseBLL_find_all(1, tbl, fails)
    \/ \E tbl \in TagTables, id \in RowIds : Delete(1, tbl, id)
    \/ \E k \in Keys, e \in Emails : UserInsert(1, k, e, "p")
    \/ \E k \in UpdateKeys, e \in Emails, p \in Passwords : UserUpdate(1, k, e, p)
    \/ \E k \in Keys, ds \in SourceIds :
          ScraperTaskInsert(1, k, ds, "d1", "q1", 60, TRUE, "ann")
    \/ \E k \in UpdateKeys, ds \in SourceIds, d \in Descriptions :
          ScraperTaskUpdate(1, k, ds, d, "q1", 60, FALSE, "bob")

SpecCrud == Init /\ [][NextCrud]_vars

\* ------------------------------------------------- C24: find_by_id, absent id
\* Caller 1's last call was BaseBLL.find_by_id, its query worked, and no row
\* of the table has the id asked for.
FoundNothing ==
    /\ pc[1] = "idle"
    /\ loc[1].op = "find_by_id"
    /\ ~ loc[1].raised
    /\ \A r \in Table(loc[1].tbl) : r.id # loc[1].id

\* C24: BaseBLL.find_by_id with an id no row of the table has returns None
\* and raises nothing.
C24_AbsentIdReturnsNone ==
    FoundNothing => (loc[1].result = {} /\ ~ loc[1].escaped)

\* find_by_id was asked for an id no row has while the table holds a row.
C24_Witness ==
    /\ FoundNothing
    /\ Table(loc[1].tbl) # {}

\* ------------------------------------------- C25: update / delete, absent id
\* This step is a call of UserBLL.update, ScraperTaskBLL.update or
\* BaseBLL.delete by caller 1 with an id no row of the table has.
AbsentIdWrite ==
    /\ calls' = calls + 1
    /\ \/ /\ loc'[1].op = "user_update"
          /\ \A r \in user : r.id # loc'[1].key
       \/ /\ loc'[1].op = "task_update"
          /\ \A r \in scraper_task : r.id # loc'[1].key
       \/ /\ loc'[1].op = "delete"
          /\ \A r \in Rows(Snapshot, loc'[1].tbl) : r.id # loc'[1].id

\* C25: update and delete with an id that does not exist return 0, raise
\* nothing and leave every row unchanged.
C25_AbsentIdWriteIsNoOp ==
    [][AbsentIdWrite =>
          /\ ret'[1] = Some(0)
          /\ ~ loc'[1].raised /\ ~ loc'[1].escaped
          /\ UNCHANGED <<store, user, scraper_task>>]_vars

\* UserBLL.update was called with a key no row has while the table holds a
\* row, and returned 0.
C25_Witness ==
    /\ pc[1] = "idle"
    /\ loc[1].op = "user_update"
    /\ user # {}
    /\ \A r \in user : r.id # loc[1].key
    /\ ret[1] = Some(0)

\* --------------------------------------------------- C26: exclude_content
\* Caller 1's query was filter_by with exclude_content set.
FilteredWithoutContent ==
    Queried(1) /\ loc[1].query = "filter_by" /\ loc[1].exclude_content

\* C26: filter_by with exclude_content set returns the rows the same query
\* returns without it (same id, author, language, timestamp, sentiment and
\* counters, as often), each with no text.
C26_ExcludeContentSameRows ==
    FilteredWithoutContent =>
        /\ \A r \in loc[1].result : r.content = None
        /\ loc[1].result =
              {[r EXCEPT !.content = None] :
                  r \in TweetDAL_filter(loc[1].filters, Snapshot, FALSE)}
        /\ \A r \in loc[1].result :
              \E t \in tweet :
                 /\ t.id = r.id /\ t.user_id = r.user_id
                 /\ t.language = r.language /\ t.created_at = r.created_at
                 /\ t.sentiment_score = r.sentiment_score
                 /\ t.like_count = r.like_count
                 /\ t.retweet_count = r.retweet_count
                 /\ t.reply_count = r.reply_count

\* Such a query has returned a row of a tweet that has a text, a language and
\* a sentiment score.
C26_Witness ==
    /\ FilteredWithoutContent
    /\ \E r \in loc[1].result, t \in tweet :
          /\ t.id = r.id /\ t.content # <<>>
          /\ r.language # None /\ r.sentiment_score # None

\* ------------------------------------------ C27: concurrent upserts, one id
\* Two callers run TweetBLL.upsert for tweet 1 concurrently, a step at a
\* time, caller 1 with the text '#a' and caller 2 with the text '#a #b'.
RaceText(c) == IF c = 1 THEN TxtA ELSE TxtAB

NextRace ==
    \/ \E c \in Callers, a \in ConcAuthors :
          \E p \in {q \in Payloads : q.content = RaceText(c)} : UpsertCall(c, 1, a, p)
    \/ \E c \in Callers : UpsertTxn(c)
    \/ \E c \in Callers : UpsertNextHashtag(c)
    \/ \E c \in Callers : UpsertLinkHashtags(c)
    \/ \E c \in Callers : UpsertNextTopic(c)
    \/ \E c \in Callers : UpsertLinkTopics(c)
    \/ \E c \in Callers : UpsertReturn(c)
    \/ \E c \in Callers : IneFind(c)
    \/ \E c \in Callers : IneInsert(c)
    \/ \E c \in Callers : IneCommit(c)
    \/ \E c \in Callers : IneExcept(c)

SpecRace == Init /\ [][NextRace]_vars

\* C27: once every concurrent TweetBLL.upsert call for one content id has
\* returned, the hashtags linked to the tweet are those of the text that is
\* stored.
C27_LinksOfStoredTextAfterRace ==
    (AllIdle /\ failures = 0 /\ calls > 0) =>
        \A t \in tweet : ExtractHashtags(t.content) = LinkedHashtags(t.id)

\* ------------------------------- C28: concurrent upserts, one new hashtag
\* Both callers have each made one TweetBLL.upsert call, for different tweet
\* ids, and both calls have returned.
BothUpserted ==
    /\ AllIdle /\ calls = 2 /\ failures = 0
    /\ \A c \in Callers : loc[c].op = "none" /\ ret[c] # None
    /\ Cardinality(tweet) = 2

\* Caller c's INSERT waits for the other caller's uncommitted row of the
\* same text.
WaitsForRow(c) ==
    /\ pc[c] = "ine_insert"
    /\ \E d \in Callers \ {c} : \E r \in pending[d] :
          /\ loc[d].tbl = loc[c].tbl
          /\ TagText(loc[c].tbl, r) = InsertedText(loc[c].tbl, loc[c].text)

\* C28: a call that waits for the other call's uncommitted hashtag row waits
\* for a call whose next step is its commit, and when two concurrent TweetBLL.upsert calls for different ids whose
\* texts share a hashtag have returned, one hashtag row holds that text and
\* both tweets are linked to it.
C28_SharedNewHashtagOneRow ==
    /\ \A c \in Callers : WaitsForRow(c) => \E d \in Callers \ {c} : pc[d] = "ine_commit"
    /\ BothUpserted =>
          \A t1, t2 \in tweet :
             \A x \in ExtractHashtags(t1.content) \cap ExtractHashtags(t2.content) :
                \E h \in hashtag :
                   /\ h.hashtag = x
                   /\ \A g \in hashtag : g.hashtag = x => g = h
                   /\ \A t \in {t1, t2} :
                         [tweet_id |-> t.id, hashtag_id |-> h.id] \in tweet_hashtag

\* Both calls have returned and one of them took the duplicate path: its
\* insert of the shared hashtag met the row the other call had just committed.
C28_Witness ==
    /\ BothUpserted
    /\ \E t1, t2 \in tweet :
          t1.id # t2.id /\ ExtractHashtags(t1.content) \cap ExtractHashtags(t2.content) # {}
    /\ peak[1] > 1 \/ peak[2] > 1

\* ------------------------------------------- C29: the id returned is a row
\* Caller c's last call was a direct insert_if_not_exists call and has
\* returned.
Asked(c) == pc[c] = "idle" /\ loc[c].op = "ine"

\* C29: the id insert_if_not_exists returns is the id of a stored row that
\* holds the requested text (in its stored form); it is never an id, such as
\* 0, that no row has.
C29_ReturnedIdIsARow ==
    \A c \in Callers :
        Asked(c) =>
            \E r \in Table(loc[c].tbl) :
                /\ ret[c] = Some(r.id)
                /\ TagText(loc[c].tbl, r) = InsertedText(loc[c].tbl, loc[c].text)

\* ------------------------------------------------ C30: '#x' and 'x' are one
\* The two spellings of one hashtag.
Spellings == {<<"a">>, <<"#", "a">>}

\* C30: every HashtagBLL.insert_if_not_exists call with '#a' or with 'a',
\* in either order and however often, returns the id of the one row that
\* holds 'a'.
C30_HashSpellingsSameId ==
    \A c \in Callers :
        (Asked(c) /\ loc[c].tbl = "hashtag" /\ loc[c].text \in Spellings) =>
            /\ Cardinality(FindByText(hashtag, "hashtag", <<"a">>)) = 1
            /\ FindByText(hashtag, "hashtag", <<"#", "a">>) = {}
            /\ ret[c] = {TheOne(FindByText(hashtag, "hashtag", <<"a">>)).id}

\* ------------------------------------------------ C31: links refer to rows
\* Every hashtag link and every topic link refers to a tweet row and a tag
\* row that exist.
LinksRefer ==
    /\ \A l \in tweet_hashtag :
          /\ \E t \in tweet : t.id = l.tweet_id
          /\ \E h \in hashtag : h.id = l.hashtag_id
    /\ \A l \in tweet_topic :
          /\ \E t \in tweet : t.id = l.tweet_id
          /\ \E h \in topic : h.id = l.topic_id

\* C31: after every step of upsert, link replacement, delete and delete_all
\* each link row refers to a tweet and a tag row that exist; a step that
\* removes a tweet leaves no link of it, and a delete or delete_all on a tag
\* table removes no tweet.
C31_LinksReferToRows ==
    [][/\ LinksRefer'
       /\ \A id \in {t.id : t \in tweet} \ {t.id : t \in tweet'} :
             /\ \A l \in tweet_hashtag' : l.tweet_id # id
             /\ \A l \in tweet_topic' : l.tweet_id # id
       /\ (loc'[1].op \in {"delete", "delete_all"} /\ loc'[1].tbl \in TagTables
             /\ calls' = calls + 1) => tweet' = tweet]_vars

\* BaseBLL.delete has removed a tweet that had a hashtag link and a topic
\* link when the call began; the tag rows are still stored.
C31_Witness ==
    /\ pc[1] = "idle" /\ loc[1].op = "delete" /\ loc[1].tbl = "tweet"
    /\ ret[1] = Some(1)
    /\ \E l \in TheOne(loc[1].snap).tweet_hashtag : l.tweet_id = loc[1].id
    /\ \E l \in TheOne(loc[1].snap).tweet_topic : l.tweet_id = loc[1].id
    /\ hashtag # {} /\ topic # {}
    /\ \A t \in tweet : t.id # loc[1].id

\* --------------------------------------------------- C32: count_if = filter
\* The length of the list TweetDAL.filter returns.
ListLength(result) ==
    Cardinality(UNION {{<<r.id, k>> : k \in 1 .. r.copies} : r \in result})

\* C32: TweetBLL.count_if(criteria) is the number of rows TweetBLL.filter_by
\* returns for the same criteria on the same rows.
C32_CountEqualsFilter ==
    (Queried(1) /\ loc[1].query = "count_if") =>
        loc[1].count = ListLength(TweetDAL_filter(loc[1].filters, Snapshot, FALSE))

\* ------------------------------------------- C33: TweetBLL.delete_all fails
\* One caller runs TweetBLL.upsert and TweetBLL.delete_all calls one after the
\* other; a statement or the commit of delete_all may fail.
NextPurge ==
    \/ \E t \in TweetIds, a \in Authors, p \in QueryPayloads : UpsertCall(1, t, a, p)
    \/ UpsertTxn(1)
    \/ UpsertNextHashtag(1)
    \/ UpsertLinkHashtags(1)
    \/ UpsertNextTopic(1)
    \/ UpsertLinkTopics(1)
    \/ UpsertReturn(1)
    \/ IneFind(1)
    \/ IneInsert(1)
    \/ IneCommit(1)
    \/ IneExcept(1)
    \/ \E f1, f2, f3 \in BOOLEAN : TweetDeleteAll(1, f1, f2, f3)

SpecPurge == Init /\ [][NextPurge]_vars

\* C33: after TweetBLL.delete_all either no tweet, no link and no hashtag is
\* stored and the call returned the number of tweets it deleted, or every row
\* is as it was before the call and the call returned 0.
C33_DeleteAllAllOrNothing ==
    (pc[1] = "idle" /\ loc[1].op = "tweet_delete_all") =>
        LET before == TheOne(loc[1].snap)
        IN  \/ /\ tweet = {} /\ hashtag = {}
               /\ tweet_hashtag = {} /\ tweet_topic = {}
               /\ ret[1] = Some(Cardinality(before.tweet))
            \/ /\ Snapshot = before
               /\ ret[1] = Some(0)

\* ------------------------------------------------ C34: author's last_updated
\* TwitterUserDAL.upsert statements for author 1, one after the other: each
\* is one statement, which the store executes under the row's lock, so the
\* interleavings of several callers' statements are their sequences.
NextAuthor ==
    \E u \in Usernames, d \in DisplayNames, ts \in Times : UserUpsert(1, 1, u, d, ts)

SpecAuthor == Init /\ [][NextAuthor]_vars

HashtagLinksOf(links, id) == {l \in links : l.tweet_id = id}
TopicLinksOf(links, id) == {l \in links : l.tweet_id = id}

\* The hashtag links the returning call's content asks for: one to the row
\* of each hashtag the stored content text holds.
ContentLinks ==
    {[tweet_id |-> loc[1].tweet_id, hashtag_id |-> h.id] :
        h \in {r \in hashtag : r.hashtag \in ExtractHashtags(loc[1].content)}}

\* The returning call was given no topic, or an empty list of topics.
WithoutTopics == TheOne(loc[1].payload).topics = <<>>

\* C35: when TweetBLL.upsert returns, the hashtag links of its tweet id are
\* those of the hashtags in its content, whatever they were before; and if
\* it was called without topics, the topic links are what they were when it
\* was called.
C35_TopicsKeptHashtagsReplaced ==
    [][UpsertReturning =>
          /\ TweetNow # {} =>
                HashtagLinksOf(tweet_hashtag, loc[1].tweet_id) = ContentLinks
          /\ WithoutTopics => tweet_topic = TheOne(loc[1].snap).tweet_topic]_vars

\* The part of C35 about the topic links alone.
C35_TopicsKept ==
    [][(UpsertReturning /\ WithoutTopics) =>
          tweet_topic = TheOne(loc[1].snap).tweet_topic]_vars

\* ------------------------------------------------ C36: frame of link replace
\* The rows of a link table that belong to tweet id, and those that do not.
RowsOf(links, id) == {l \in links : l.tweet_id = id}
RowsOfOthers(links, id) == {l \in links : l.tweet_id # id}

\* C36: a link replacement for tweet id c (TweetHashtagBLL.insert or
\* TweetTopicBLL.insert) leaves the rows of every other tweet id in both link
\* tables as they were; when it fails, because the list repeats an id or
\* names an id that is no row, or the tweet is no row, it returns False and
\* the rows of c are as they were too.
C36_LinkReplaceFrame ==
    \A c \in Callers :
        Linked(c) =>
            LET l      == loc[c]
                before == TheOne(l.snap)
            IN  /\ RowsOfOthers(tweet_hashtag, l.tweet_id)
                      = RowsOfOthers(before.tweet_hashtag, l.tweet_id)
                /\ RowsOfOthers(tweet_topic, l.tweet_id)
                      = RowsOfOthers(before.tweet_topic, l.tweet_id)
                /\ ~ LinkArgumentsExist(c) =>
                      /\ ~ l.success
                      /\ RowsOf(tweet_hashtag, l.tweet_id)
                            = RowsOf(before.tweet_hashtag, l.tweet_id)
                      /\ RowsOf(tweet_topic, l.tweet_id)
                            = RowsOf(before.tweet_topic, l.tweet_id)

\* A replacement of the topic links of a tweet that has topic links failed
\* on a list that repeats an id or names no row, and the links are there.
C36_Witness ==
    /\ Linked(1) /\ loc[1].op = "link_topics" /\ ~ loc[1].success
    /\ loc[1].id_list # <<>>
    /\ \E t \in tweet : t.id = loc[1].tweet_id
    /\ RowsOf(tweet_topic, loc[1].tweet_id) # {}
    /\ RowsOf(tweet_topic, loc[1].tweet_id)
          = RowsOf(TheOne(loc[1].snap).tweet_topic, loc[1].tweet_id)

\* ------------------------------------------------ C37: a failing read
\* Caller 1's last call was a find_by_id or a find_all whose query raised.
ReadFailed ==
    /\ pc[1] = "idle"
    /\ loc[1].op \in {"find_by_id", "find_all"}
    /\ loc[1].raised

\* C37: BaseBLL.find_by_id and BaseBLL.find_all return None and raise
\* nothing when their query fails.
C37_FailedReadReturnsNone ==
    ReadFailed => (~ loc[1].escaped /\ loc[1].result = {})

\* ------------------------------------------------ RawDataBLL.insert_all
\* A value json.dumps cannot serialise (a set); every other element a caller
\* passes is a JSON value, None included, which the JSON column stores as
\* the JSON null.
Unserialisable == "set()"

\* uuid.uuid4().bytes (DAL.py:181): a key no row holds; the i-th key drawn.
FreshId(rows, i) ==
    LET used == {r.id : r \in rows} \cup {0}
    IN  (CHOOSE m \in used : \A x \in used : x <= m) + i

RawDataDAL_insert_all_until_failure(rows, data_source_id, json_array) ==
    LET bad  == {i \in 1 .. Len(json_array) : json_array[i] = Unserialisable}
        ok   == data_source_id \in DataSourceIds /\ bad = {}
        upto == IF data_source_id \notin DataSourceIds THEN 0
                ELSE IF bad = {} THEN Len(json_array)
                ELSE (CHOOSE i \in bad : \A j \in bad : i <= j) - 1
    IN  [ok |-> ok,
         rows |-> rows \cup {[id |-> FreshId(rows, i), data_source_id |-> data_source_id,
                              data |-> json_array[i]] : i \in 1 .. upto}]

\* RawDataDAL.insert_all (DAL.py:170-182) and the flush of the commit that
\* follows it: one RawData(uuid4, data_source_id, e, None) per element e,
\* session.add_all(values).  The flush inserts the rows in one transaction;
\* it raises when data_source_id is no row of data_source (models.py:31) or
\* an element cannot be serialised, and then no row of the list is there.
RawDataDAL_insert_all(rows, data_source_id, json_array) ==
    LET ok == /\ data_source_id \in DataSourceIds
              /\ \A i \in 1 .. Len(json_array) : json_array[i] # Unserialisable
    IN  [ok |-> ok,
         rows |-> IF ok
                  THEN rows \cup {[id |-> FreshId(rows, i),
                                   data_source_id |-> data_source_id,
                                   data |-> json_array[i]] : i \in 1 .. Len(json_array)}
                  ELSE rows]

\* RawDataBLL.insert_all (BLL.py:249-271): insert_all, commit, success =
\* True; on an exception roll back and success = False; close the session
\* and return success.  commit_fails says that the commit itself raises.
RawDataInsertAll(c, data_source_id, json_array, commit_fails) ==
    /\ pc[c] = "idle"
    /\ calls < MaxCalls
    /\ calls' = calls + 1
    /\ LET r == RawDataDAL_insert_all(raw_data, data_source_id, json_array)
       IN  /\ raw_data' = IF commit_fails THEN raw_data ELSE r.rows
           /\ loc' = [loc EXCEPT ![c] =
                         [NoCall EXCEPT !.op = "raw_insert_all",
                                        !.key = data_source_id,
                                        !.json_array = json_array,
                                        !.success = r.ok /\ ~ commit_fails,
                                        !.raised = ~ r.ok \/ commit_fails,
                                        !.base = open[c], !.snap = Some(Snapshot)]]
    /\ ret' = [ret EXCEPT ![c] = None]
    /\ peak' = [peak EXCEPT ![c] = 1]
    /\ UNCHANGED <<store, user, scraper_task, autoinc, pending, pc, open, failures>>

JsonArrays ==
    {<<>>, <<"1">>, <<"1", "2">>, <<"1", "1">>, <<"null", "1">>,
     <<"1", Unserialisable>>, <<Unserialisable, "1">>}

\* One caller stores arrays of raw data one after the other.
NextRaw ==
    \E ds \in SourceIds, a \in JsonArrays, commit_fails \in BOOLEAN :
        RawDataInsertAll(1, ds, a, commit_fails)

SpecRaw == Init /\ [][NextRaw]_vars

\* ------------------------------------------------ C38: insert_all
\* This step is a call of RawDataBLL.insert_all by caller 1.
RawInsertAllStep == calls' = calls + 1 /\ loc'[1].op = "raw_insert_all"

\* The rows of raw_data the step has added.
RawAdded == raw_data' \ raw_data

\* C38: RawDataBLL.insert_all(data_source_id, json_array) raises nothing and
\* either returns True, and then raw_data has its old rows and one new row
\* of data_source_id for each position of json_array, holding the element at
\* that position, or returns False, and then raw_data is as it was.
C38_InsertAllAllOrNothing ==
    [][RawInsertAllStep =>
          LET a == loc'[1].json_array
          IN  /\ ~ loc'[1].escaped
              /\ raw_data \subseteq raw_data'
              /\ IF loc'[1].success
                 THEN /\ Cardinality(RawAdded) = Len(a)
                      /\ \A r \in RawAdded : r.data_source_id = loc'[1].key
                      /\ \A e \in SeqRange(a) :
                            Cardinality({r \in RawAdded : r.data = e})
                               = Cardinality({i \in 1 .. Len(a) : a[i] = e})
                 ELSE raw_data' = raw_data]_vars

\* A call with an array whose first element can be stored and whose second
\* cannot has returned False; raw_data holds the two rows of an earlier
\* call and nothing else.
C38_Witness ==
    /\ loc[1].op = "raw_insert_all" /\ ~ loc[1].success
    /\ loc[1].key \in DataSourceIds
    /\ loc[1].json_array = <<"1", Unserialisable>>
    /\ Cardinality(raw_data) = 2
    /\ \A r \in raw_data : r.data = "1"

=============================================================================
